---- MODULE Spec2Model ----
(***************************************************************************)
(* Model of the rank/price reconciliation pipeline of                      *)
(* utils/generate_synthesized_data.py: ModelNameNormalizer, PriceMatcher,  *)
(* DefaultPricingEstimator and DataSynthesizer.                            *)
(*                                                                         *)
(* A Python str is a sequence of one-character strings, so that every      *)
(* regular expression of the source is computed character by character.    *)
(* Prices are integers in hundredths of a currency unit (2.5 is 250).      *)
(***************************************************************************)
EXTENDS Integers, Sequences, FiniteSets, TLC

VARIABLES
    nm_pc,              \* normalizer harness: "input", "once", "twice", or "off"
    nm_in,              \* the string handed to normalize
    nm_once,            \* normalize(nm_in)
    nm_twice,           \* normalize(normalize(nm_in))
    pc,                 \* position in DataSynthesizer.generate
    min_elo,            \* DataSynthesizer.min_elo
    exclude_free,       \* DataSynthesizer.exclude_free
    price_data,         \* price_data.json, flattened to (provider, model) pairs in file order
    rank_data,          \* rank_data.json "models"
    price_lookup,       \* the dict built by _load_price_data, in insertion order
    idx,                \* number of rank entries the loop of generate has consumed
    synthesized_data,   \* list of ModelData
    matching_debug,     \* list of MatchingDebugInfo
    trace,              \* per consumed rank entry: which return statement was taken
    records,            \* the records of _generate_js_content
    run_no,             \* 1 in the first call of generate, 2 in a second call on the same files
    first_run,          \* what the first call produced, once a second call has begun
    call_pc,            \* harness of single calls: "ready", "returned", or "off"
    call,               \* the function called and its two arguments
    ret,                \* what the call returned
    fetch_pc,           \* position in fetch_latest_leaderboard_df, or "off"
    current_date,       \* last_updated of data/rank_data.json
    repo,               \* the leaderboard repository: whether it answers, and its files
    readable,           \* the files that download and process into a data frame
    check,              \* what check_if_update_needed returned
    downloads,          \* the files fetch_latest_leaderboard_df asked for, in order
    fetched             \* what fetch_latest_leaderboard_df returned

vars == <<nm_pc, nm_in, nm_once, nm_twice, pc, min_elo, exclude_free, price_data,
          rank_data, price_lookup, idx, synthesized_data, matching_debug, trace, records,
          run_no, first_run, call_pc, call, ret,
          fetch_pc, current_date, repo, readable, check, downloads, fetched>>

nmVars == <<nm_pc, nm_in, nm_once, nm_twice>>
plVars == <<pc, min_elo, exclude_free, price_data, rank_data, price_lookup, idx,
            synthesized_data, matching_debug, trace, records, run_no, first_run>>
runVars == <<run_no, first_run>>
callVars == <<call_pc, call, ret>>
fetchVars == <<fetch_pc, current_date, repo, readable, check, downloads, fetched>>
auxVars == <<callVars, fetchVars>>

(***************************************************************************)
(* Characters and strings                                                  *)
(***************************************************************************)
UPPER == <<"A","B","C","D","E","F","G","H","I","J","K","L","M","N","O","P","Q","R","S","T","U","V","W","X","Y","Z">>
LOWER == <<"a","b","c","d","e","f","g","h","i","j","k","l","m","n","o","p","q","r","s","t","u","v","w","x","y","z">>
DIGITS == <<"0","1","2","3","4","5","6","7","8","9">>

Range(f) == {f[i] : i \in DOMAIN f}

DigitChars == Range(DIGITS)
UpperChars == Range(UPPER)
WordChars == Range(UPPER) \cup Range(LOWER) \cup Range(DIGITS) \cup {"_"}
LowerOf == [c \in UpperChars |-> LOWER[CHOOSE i \in DOMAIN UPPER : UPPER[i] = c]]

\* \d
IsDigit(c) == c \in DigitChars
\* \w
IsWord(c) == c \in WordChars
\* \s
IsSpace(c) == c = " "

\* str.lower, one character
LowerChar(c) == IF c \in UpperChars THEN LowerOf[c] ELSE c

\* str.lower
Lower(s) == [i \in DOMAIN s |-> LowerChar(s[i])]

\* s[i:].startswith(lit), positions counted from 1
StartsAt(s, i, lit) ==
    /\ i >= 1
    /\ i + Len(lit) - 1 <= Len(s)
    /\ \A k \in 1..Len(lit) : s[i + k - 1] = lit[k]

\* lit in s
Contains(s, lit) == \E i \in 1..(Len(s) + 1) : StartsAt(s, i, lit)

\* the digit at position i of s, if there is one
DigitAt(s, i) == i >= 1 /\ i <= Len(s) /\ IsDigit(s[i])

\* \d{n} at position i
DigitsAt(s, i, n) == \A k \in 0..(n - 1) : DigitAt(s, i + k)

\* length of the maximal run of digits starting at position i (\d* , greedy)
DigitRun(s, i) ==
    LET RECURSIVE run(_)
        run(k) == IF DigitAt(s, k) THEN 1 + run(k + 1) ELSE 0
    IN run(i)

\* str.strip
Strip(s) ==
    LET keep == {i \in DOMAIN s : ~IsSpace(s[i])}
    IN IF keep = {} THEN <<>>
       ELSE LET lo == CHOOSE i \in keep : \A j \in keep : i <= j
                hi == CHOOSE i \in keep : \A j \in keep : i >= j
            IN SubSeq(s, lo, hi)

\* re.sub(pattern, repl, s) for a pattern that never matches the empty string:
\* M(s, i) is the length of the match of the pattern at position i (0: none),
\* R(s, i, n) the replacement of the match of length n at i.
ReSub(s, M(_, _), R(_, _, _)) ==
    LET RECURSIVE go(_)
        go(i) == IF i > Len(s) THEN <<>>
                 ELSE LET n == M(s, i)
                      IN IF n > 0 THEN R(s, i, n) \o go(i + n)
                         ELSE <<s[i]>> \o go(i + 1)
    IN go(1)

\* re.search(pattern, s): the first position at which the pattern matches (0: none)
ReSearch(s, M(_, _)) ==
    IF \E i \in 1..Len(s) : M(s, i) > 0
    THEN CHOOSE i \in 1..Len(s) : M(s, i) > 0 /\ \A j \in 1..(i - 1) : M(s, j) = 0
    ELSE 0

ReplEmpty(s, i, n) == <<>>
ReplSpace(s, i, n) == <<" ">>

(***************************************************************************)
(* ModelNameNormalizer                                                     *)
(***************************************************************************)
S_preview == <<"p","r","e","v","i","e","w">>
S_exp == <<"e","x","p">>
S_latest == <<"l","a","t","e","s","t">>
S_beta == <<"b","e","t","a">>
S_bf16 == <<"-","b","f","1","6">>
S_fp == <<"-","f","p">>
S_instruct == <<"-","i","n","s","t","r","u","c","t">>
S_chat == <<"-","c","h","a","t">>

\* -\d{4}-\d{2}-\d{2}|-\d{4,}
MatchDateSuffix(s, i) ==
    IF ~StartsAt(s, i, <<"-">>) THEN 0
    ELSE IF /\ DigitsAt(s, i + 1, 4) /\ StartsAt(s, i + 5, <<"-">>)
            /\ DigitsAt(s, i + 6, 2) /\ StartsAt(s, i + 8, <<"-">>)
            /\ DigitsAt(s, i + 9, 2)
         THEN 11
    ELSE IF DigitRun(s, i + 1) >= 4 THEN 1 + DigitRun(s, i + 1)
    ELSE 0

\* -\d{2}-\d{2}
MatchDayPair(s, i) ==
    IF /\ StartsAt(s, i, <<"-">>) /\ DigitsAt(s, i + 1, 2)
       /\ StartsAt(s, i + 3, <<"-">>) /\ DigitsAt(s, i + 4, 2)
    THEN 6 ELSE 0

\* preview.*|exp.*|latest.*|beta.*|v\d.*   (the names hold no newline)
MatchQualifier(s, i) ==
    IF \/ StartsAt(s, i, S_preview) \/ StartsAt(s, i, S_exp)
       \/ StartsAt(s, i, S_latest) \/ StartsAt(s, i, S_beta)
       \/ (StartsAt(s, i, <<"v">>) /\ DigitAt(s, i + 1))
    THEN Len(s) - i + 1 ELSE 0

\* -bf16|-fp\d+|-instruct|-chat
MatchQuant(s, i) ==
    IF StartsAt(s, i, S_bf16) THEN 5
    ELSE IF StartsAt(s, i, S_fp) /\ DigitAt(s, i + 3) THEN 3 + DigitRun(s, i + 3)
    ELSE IF StartsAt(s, i, S_instruct) THEN 9
    ELSE IF StartsAt(s, i, S_chat) THEN 5
    ELSE 0

\* (\d+)b-   : the greedy \d+ takes the whole run; giving digits back never
\* helps, since the character after a shorter run is a digit, not "b"
MatchSizeB(s, i) ==
    LET n == DigitRun(s, i)
    IN IF n >= 1 /\ StartsAt(s, i + n, <<"b","-">>) THEN n + 2 ELSE 0

\* r"\1b "
ReplSizeB(s, i, n) == SubSeq(s, i, i + n - 3) \o <<"b"," ">>

\* [-_\s]+
MatchSeparators(s, i) ==
    LET RECURSIVE run(_)
        run(k) == IF k <= Len(s) /\ (s[k] \in {"-", "_"} \/ IsSpace(s[k]))
                  THEN 1 + run(k + 1) ELSE 0
    IN IF i <= Len(s) THEN run(i) ELSE 0

\* normalize without the date steps (lines 54-55 left out)
normalize_no_dates(name) ==
    LET n0 == Lower(name)
        n3 == ReSub(n0, MatchQualifier, ReplEmpty)
        n4 == ReSub(n3, MatchQuant, ReplEmpty)
        n5 == ReSub(n4, MatchSizeB, ReplSizeB)
    IN Strip(ReSub(n5, MatchSeparators, ReplSpace))

\* normalize with a placeholder returned in place of the empty string
OrUnknown(s) == IF s = <<>> THEN <<"u","n","k","n","o","w","n">> ELSE s

normalize_or_unknown(name) ==
    LET n0 == Lower(name)
        n1 == ReSub(n0, MatchDateSuffix, ReplEmpty)
        n2 == ReSub(n1, MatchDayPair, ReplEmpty)
        n3 == ReSub(n2, MatchQualifier, ReplEmpty)
        n4 == ReSub(n3, MatchQuant, ReplEmpty)
        n5 == ReSub(n4, MatchSizeB, ReplSizeB)
    IN OrUnknown(Strip(ReSub(n5, MatchSeparators, ReplSpace)))

\* ModelNameNormalizer.normalize
normalize(name) ==
    LET n0 == Lower(name)
        n1 == ReSub(n0, MatchDateSuffix, ReplEmpty)
        n2 == ReSub(n1, MatchDayPair, ReplEmpty)
        n3 == ReSub(n2, MatchQualifier, ReplEmpty)
        n4 == ReSub(n3, MatchQuant, ReplEmpty)
        n5 == ReSub(n4, MatchSizeB, ReplSizeB)
    IN Strip(ReSub(n5, MatchSeparators, ReplSpace))

(***************************************************************************)
(* The inputs of a run: price_data.json, rank_data.json, the configuration *)
(***************************************************************************)
MaxCatalog == 2
MaxRank == 2

N_gpt4o == <<"g","p","t","-","4","o">>
N_GPT4o == <<"G","P","T","-","4","o">>
N_gpt4o_latest == <<"g","p","t","-","4","o","-","l","a","t","e","s","t">>
N_gpt_4o_normal == <<"g","p","t"," ","4","o">>
N_FamilyX == <<"F","a","m","i","l","y","-","X">>
N_gpt4o_dated == <<"g","p","t","-","4","o","-","2","0","2","4","-","0","8","-","0","6">>
N_gpt5 == <<"g","p","t","-","5">>
N_gpt4o_mini == <<"g","p","t","-","4","o","-","m","i","n","i">>
N_FamilyX_0601 == <<"F","a","m","i","l","y","-","X","-","2","0","2","4","0","6","0","1">>
N_FamilyX_0915 == <<"F","a","m","i","l","y","-","X","-","2","0","2","4","0","9","1","5">>
N_FamilyX_0601_beta == <<"F","a","m","i","l","y","-","X","-","2","0","2","4","0","6","0","1","-","b","e","t","a">>
N_FamilyX_ProMax == <<"F","a","m","i","l","y","-","X","-","P","r","o","-","M","a","x">>
N_unknown_v9 == <<"t","o","t","a","l","l","y","-","u","n","k","n","o","w","n","-","m","o","d","e","l","-","v","9">>
P_OpenAI == <<"O","p","e","n","A","I">>
P_Azure == <<"A","z","u","r","e">>
P_Acme == <<"A","c","m","e">>

PriceEntry(provider, name, inputPrice) ==
    [provider |-> provider, model |-> [name |-> name, inputPrice |-> inputPrice]]

CatalogEntries ==
    { PriceEntry(P_OpenAI, N_gpt4o, 250),
      PriceEntry(P_Azure, N_gpt4o, 250),
      PriceEntry(P_Azure, N_GPT4o, 100),
      PriceEntry(P_OpenAI, N_gpt4o_latest, 500),
      PriceEntry(P_Acme, N_FamilyX, 100) }

\* Score is a float of the JSON file: the model counts it in tenths (1300.0 is 13000)
RankEntry(name, score, votes, organization) ==
    [Model |-> name, Score |-> score, Votes |-> votes, Organization |-> organization]

\* the leaderboard the rank lists of the model are cut from, by falling Score
Leaderboard ==
    << RankEntry(N_gpt4o_dated, 13000, 500, P_OpenAI),
       RankEntry(N_gpt4o_latest, 13000, 500, P_OpenAI),
       RankEntry(N_gpt5, 13000, 500, P_OpenAI),
       RankEntry(N_FamilyX_0601, 13000, 500, P_Acme),
       RankEntry(N_FamilyX_0915, 13000, 500, P_Acme),
       RankEntry(N_FamilyX_0601_beta, 13000, 500, P_Acme),
       RankEntry(N_FamilyX_ProMax, 13000, 500, P_Acme),
       RankEntry(N_unknown_v9, 12600, 500, P_OpenAI),
       RankEntry(N_gpt4o_mini, 12000, 500, P_OpenAI) >>

RankEntries == Range(Leaderboard)

\* the lists of at most n entries of list, in the order of list
SubLists(list, n) ==
    LET Nth(I, k) == CHOOSE x \in I : Cardinality({y \in I : y < x}) = k - 1
    IN {[k \in 1..Cardinality(I) |-> list[Nth(I, k)]] :
           I \in {J \in SUBSET DOMAIN list : Cardinality(J) <= n}}

\* the data files of the runs that end in shared catalog names
N_acme_FamilyX == <<"a","c","m","e","/","F","a","m","i","l","y","-","X">>
N_openai_gpt4o_dated ==
    <<"o","p","e","n","a","i","/","g","p","t","-","4","o","-","2","0","2","4","-","0","8","-","0","6">>
N_FamilyX_v2_0601 ==
    <<"F","a","m","i","l","y","-","X","-","v","2","-","2","0","2","4","0","6","0","1">>
N_FamilyX_iso_V15 ==
    <<"F","a","m","i","l","y","-","X","-","2","0","2","4","-","0","9","-","1","5","-","V","1",".","5">>
N_FamilyX_v2_mmdd == <<"F","a","m","i","l","y","-","X","-","v","2","-","0","6","-","0","1">>
N_acme_FamilyX_v3 == <<"a","c","m","e","/","F","a","m","i","l","y","-","X","-","v","3">>
N_acme_FamilyX_latest ==
    <<"a","c","m","e","/","F","a","m","i","l","y","-","X","-","l","a","t","e","s","t">>
N_openai_gpt4o_latest ==
    <<"o","p","e","n","a","i","/","g","p","t","-","4","o","-","l","a","t","e","s","t">>

NameCatalogEntries ==
    { PriceEntry(P_OpenAI, N_gpt4o, 250),
      PriceEntry(P_Acme, N_acme_FamilyX, 100),
      PriceEntry(P_OpenAI, N_openai_gpt4o_dated, 250) }

NameLeaderboard ==
    << RankEntry(N_FamilyX_v2_0601, 13000, 500, P_Acme),
       RankEntry(N_FamilyX_iso_V15, 13000, 500, P_Acme),
       RankEntry(N_FamilyX_v2_mmdd, 13000, 500, P_Acme),
       RankEntry(N_acme_FamilyX_v3, 13000, 500, P_Acme),
       RankEntry(N_acme_FamilyX_latest, 13000, 500, P_Acme),
       RankEntry(N_openai_gpt4o_latest, 13000, 500, P_OpenAI),
       RankEntry(N_GPT4o, 13000, 500, P_OpenAI) >>

\* DataSynthesizer() and main's DataSynthesizer(min_elo=0, exclude_free=False)
Configs ==
    { [min_elo |-> 1250, exclude_free |-> TRUE],
      [min_elo |-> 0, exclude_free |-> FALSE] }

SeqsUpTo(S, n) == UNION {[1..k -> S] : k \in 0..n}

\* normalize(name), computed once for each name the catalogs of the model hold
KnownNames ==
    LET catalog == CatalogEntries \cup NameCatalogEntries
        ranks == RankEntries \cup Range(NameLeaderboard)
    IN {e.model.name : e \in catalog} \cup {Lower(e.model.name) : e \in catalog}
           \cup {e.Model : e \in ranks} \cup {Lower(e.Model) : e \in ranks}

NormalizedOf == [n \in KnownNames |-> normalize(n)]

Normalized(name) == IF name \in KnownNames THEN NormalizedOf[name] ELSE normalize(name)

(***************************************************************************)
(* _load_price_data: the price index                                       *)
(***************************************************************************)
\* the value standing for Python's None
None == [none |-> TRUE]

\* None where the code expects a str (a JSON null in rank_data.json): a sequence
\* that is no str, since a str holds single characters only
Null == <<"None">>

\* PriceInfo, together with the dict key it is stored under
PriceInfo(key, price, provider, original_name) ==
    [key |-> key, price |-> price, provider |-> provider, original_name |-> original_name]

\* model_name in price_lookup
HasKey(lookup, key) == \E i \in DOMAIN lookup : lookup[i].key = key

\* the position of key in the dict's insertion order
KeyPos(lookup, key) == CHOOSE i \in DOMAIN lookup : lookup[i].key = key

\* price_lookup[key]
Get(lookup, key) == lookup[KeyPos(lookup, key)]

\* price_lookup[key] = info: a new key goes last, an old key keeps its place
Put(lookup, info) ==
    IF HasKey(lookup, info.key)
    THEN [lookup EXCEPT ![KeyPos(lookup, info.key)] = info]
    ELSE Append(lookup, info)

\* one iteration of the loops of scripts/generate_synthesized_data.py, which
\* stores every model unconditionally
InsertAlways(lookup, provider_name, model) ==
    Put(lookup, PriceInfo(Lower(model.name), model.inputPrice, provider_name, model.name))

\* one iteration of the loops of _load_price_data
InsertPrice(lookup, provider_name, model) ==
    LET model_name == Lower(model.name)
        current_price == model.inputPrice
    IN IF \/ ~HasKey(lookup, model_name)
          \/ current_price < Get(lookup, model_name).price
       THEN Put(lookup, PriceInfo(model_name, current_price, provider_name, model.name))
       ELSE lookup

\* DataSynthesizer._load_price_data, on the parsed price_data.json
RECURSIVE load_price_data(_)
load_price_data(data) ==
    IF data = <<>> THEN <<>>
    ELSE LET n == Len(data)
         IN InsertPrice(load_price_data(SubSeq(data, 1, n - 1)),
                        data[n].provider, data[n].model)

(***************************************************************************)
(* PriceMatcher                                                            *)
(***************************************************************************)
S_gemini == <<"g","e","m","i","n","i">>
S_gpt == <<"g","p","t">>
S_claude == <<"c","l","a","u","d","e">>
S_deepseek == <<"d","e","e","p","s","e","e","k">>
S_qwen == <<"q","w","e","n">>
S_grok == <<"g","r","o","k">>

MODEL_FAMILIES == <<S_gemini, S_gpt, S_claude, S_deepseek, S_qwen, S_grok>>

\* set(re.findall(r"\w+", s))
Tokens(s) ==
    LET RECURSIVE run(_)
        run(k) == IF k <= Len(s) /\ IsWord(s[k]) THEN 1 + run(k + 1) ELSE 0
        starts == {i \in DOMAIN s : IsWord(s[i]) /\ (i = 1 \/ ~IsWord(s[i - 1]))}
    IN {SubSeq(s, i, i + run(i) - 1) : i \in starts}

\* re.search(r"(\d+\.?\d*)", s): group(1) of the match, <<>> when there is none
\* (a match is never empty)
FirstVersion(s) ==
    IF \A i \in DOMAIN s : ~IsDigit(s[i]) THEN <<>>
    ELSE LET i == CHOOSE k \in DOMAIN s :
                     IsDigit(s[k]) /\ \A j \in 1..(k - 1) : ~IsDigit(s[j])
             n == DigitRun(s, i)
             m == IF StartsAt(s, i + n, <<".">>) THEN 1 + DigitRun(s, i + n + 1) ELSE 0
         IN SubSeq(s, i, i + n + m - 1)

\* A score is a fraction <<numerator, denominator>>; bonuses are in tenths.
Zero == <<0, 1>>
ScoreGT(a, b) == a[1] * b[2] > b[1] * a[2]
ScoreEQ(a, b) == a[1] * b[2] = b[1] * a[2]
Half == <<1, 2>>

FAMILY_BONUS == 3
VERSION_BONUS == 2

\* _calculate_family_bonus without the break of line 154: every shared family
\* adds its bonus
calculate_family_bonus_stacked(model_lower, price_model_lower) ==
    LET shared == {f \in DOMAIN MODEL_FAMILIES :
                      /\ Contains(model_lower, MODEL_FAMILIES[f])
                      /\ Contains(price_model_lower, MODEL_FAMILIES[f])}
        model_version == FirstVersion(model_lower)
        price_version == FirstVersion(price_model_lower)
    IN IF /\ model_version # <<>>
          /\ price_version # <<>>
          /\ model_version = price_version
       THEN Cardinality(shared) * (FAMILY_BONUS + VERSION_BONUS)
       ELSE Cardinality(shared) * FAMILY_BONUS

\* PriceMatcher._calculate_family_bonus, in tenths
calculate_family_bonus(model_lower, price_model_lower) ==
    LET shared == {f \in DOMAIN MODEL_FAMILIES :
                      /\ Contains(model_lower, MODEL_FAMILIES[f])
                      /\ Contains(price_model_lower, MODEL_FAMILIES[f])}
        model_version == FirstVersion(model_lower)
        price_version == FirstVersion(price_model_lower)
    IN IF shared = {} THEN 0
       ELSE IF /\ model_version # <<>>
               /\ price_version # <<>>
               /\ model_version = price_version
            THEN FAMILY_BONUS + VERSION_BONUS
            ELSE FAMILY_BONUS

\* lines 124-133, given overlap and total_parts; the bonus is in tenths
ScoreNoFloor(overlap, total_parts, model_lower, price_model_lower) ==
    IF total_parts = 0 THEN Zero
    ELSE <<10 * overlap + calculate_family_bonus(model_lower, price_model_lower) * total_parts,
           10 * total_parts>>

\* lines 121-122, given the two token sets
PartsScoreNoFloor(model_parts, price_parts, model_lower, price_model_lower) ==
    ScoreNoFloor(Cardinality(model_parts \cap price_parts),
                 Cardinality(model_parts \cup price_parts), model_lower, price_model_lower)

\* the similarity with the floor on the overlap left out
similarity_no_floor(model_lower, model_normalized, price_model) ==
    PartsScoreNoFloor(Tokens(model_normalized), Tokens(Normalized(price_model)),
                      model_lower, Lower(price_model))

\* lines 124-133, given overlap and total_parts; the bonus is in tenths
Score(overlap, total_parts, model_lower, price_model_lower) ==
    IF overlap < 2 \/ total_parts = 0 THEN Zero
    ELSE <<10 * overlap + calculate_family_bonus(model_lower, price_model_lower) * total_parts,
           10 * total_parts>>

\* lines 121-122, given the two token sets
PartsScore(model_parts, price_parts, model_lower, price_model_lower) ==
    Score(Cardinality(model_parts \cap price_parts),
          Cardinality(model_parts \cup price_parts), model_lower, price_model_lower)

\* PriceMatcher._calculate_similarity_score
calculate_similarity_score(model_lower, model_normalized, price_model) ==
    PartsScore(Tokens(model_normalized), Tokens(Normalized(price_model)),
               model_lower, Lower(price_model))

\* lines 106-108: the best (match, score) after one more item
\* lines 106-108 with score >= best_score: the last of equal scores is kept
BetterOrEqual(prev, info, score) ==
    IF ~ScoreGT(prev.best_score, score)
    THEN [best_match |-> info, best_score |-> score]
    ELSE prev

Better(prev, info, score) ==
    IF ScoreGT(score, prev.best_score)
    THEN [best_match |-> info, best_score |-> score]
    ELSE prev

\* the loop of _fuzzy_match over the first n items of the dict:
\* (best_match, best_score) after them
RECURSIVE FuzzyBest(_, _, _, _)
FuzzyBest(lookup, n, model_lower, model_normalized) ==
    IF n = 0 THEN [best_match |-> None, best_score |-> Zero]
    ELSE Better(FuzzyBest(lookup, n - 1, model_lower, model_normalized), lookup[n],
                calculate_similarity_score(model_lower, model_normalized, lookup[n].key))

\* line 110 with a best score of exactly 0.5 accepted
ThresholdInclusive(b) ==
    IF ~ScoreGT(Half, b.best_score)
    THEN [info |-> b.best_match, strategy |-> "fuzzy", score |-> b.best_score]
    ELSE [info |-> None, strategy |-> "none", score |-> b.best_score]

\* line 110: the minimum threshold
Threshold(b) ==
    IF ScoreGT(b.best_score, Half)
    THEN [info |-> b.best_match, strategy |-> "fuzzy", score |-> b.best_score]
    ELSE [info |-> None, strategy |-> "none", score |-> b.best_score]

\* PriceMatcher._fuzzy_match
fuzzy_match(lookup, model_lower, model_normalized) ==
    Threshold(FuzzyBest(lookup, Len(lookup), model_lower, model_normalized))

\* the positions of the dict whose key normalizes to model_normalized
NormalizedHits(lookup, model_normalized) ==
    {i \in DOMAIN lookup : Normalized(lookup[i].key) = model_normalized}

\* lines 87-92 with the scan keeping the last position it accepts
LastHitOrFuzzy(lookup, hits, model_lower, model_normalized) ==
    IF hits # {}
    THEN [info |-> lookup[CHOOSE i \in hits : \A j \in hits : i >= j],
          strategy |-> "normalized", score |-> <<1, 1>>]
    ELSE fuzzy_match(lookup, model_lower, model_normalized)

\* lines 87-92, given the positions the normalized scan would accept
FirstHitOrFuzzy(lookup, hits, model_lower, model_normalized) ==
    IF hits # {}
    THEN [info |-> lookup[CHOOSE i \in hits : \A j \in hits : i <= j],
          strategy |-> "normalized", score |-> <<1, 1>>]
    ELSE fuzzy_match(lookup, model_lower, model_normalized)

\* lines 87-92, given model_lower and model_normalized
NormalizedOrFuzzy(lookup, model_lower, model_normalized) ==
    FirstHitOrFuzzy(lookup, NormalizedHits(lookup, model_normalized),
                    model_lower, model_normalized)

\* the steps of find_match after the direct match
normalized_then_fuzzy(lookup, model_name) ==
    NormalizedOrFuzzy(lookup, Lower(model_name), Normalized(model_name))

\* lines 83-92, given model_lower and model_normalized
MatchSteps(lookup, model_lower, model_normalized) ==
    IF HasKey(lookup, model_lower)
    THEN [info |-> Get(lookup, model_lower), strategy |-> "exact", score |-> <<1, 1>>]
    ELSE NormalizedOrFuzzy(lookup, model_lower, model_normalized)

\* PriceMatcher.find_match: the PriceInfo returned (or None), with the return
\* statement that produced it
find_match(lookup, model_name) ==
    MatchSteps(lookup, Lower(model_name), Normalized(model_name))

(***************************************************************************)
(* DefaultPricingEstimator                                                 *)
(***************************************************************************)
S_openai == <<"o","p","e","n","a","i">>
S_anthropic == <<"a","n","t","h","r","o","p","i","c">>
S_google == <<"g","o","o","g","l","e">>
S_alibaba == <<"a","l","i","b","a","b","a">>
S_xai == <<"x","a","i">>
P_Anthropic == <<"A","n","t","h","r","o","p","i","c">>
P_Google == <<"G","o","o","g","l","e">>
P_DeepSeek == <<"D","e","e","p","S","e","e","k">>
P_Alibaba == <<"A","l","i","b","a","b","a">>
P_xAI == <<"x","A","I">>
P_Unknown == <<"U","n","k","n","o","w","n">>
DEFAULT_ESTIMATE == <<"D","E","F","A","U","L","T","_","E","S","T","I","M","A","T","E">>

\* re.search(pattern, s) for the patterns of PRICING_RULES
PatternFound(pattern, s) ==
    CASE pattern = "4\\.5|o3" -> Contains(s, <<"4",".","5">>) \/ Contains(s, <<"o","3">>)
      [] pattern = "4o|4\\.1" -> Contains(s, <<"4","o">>) \/ Contains(s, <<"4",".","1">>)
      [] pattern = "mini|nano" ->
            Contains(s, <<"m","i","n","i">>) \/ Contains(s, <<"n","a","n","o">>)
      [] pattern = "3\\.7|opus" ->
            Contains(s, <<"3",".","7">>) \/ Contains(s, <<"o","p","u","s">>)
      [] pattern = "sonnet" -> Contains(s, <<"s","o","n","n","e","t">>)
      [] pattern = "haiku" -> Contains(s, <<"h","a","i","k","u">>)
      [] pattern = "2\\.5.*pro" ->
            \E i \in DOMAIN s : /\ StartsAt(s, i, <<"2",".","5">>)
                                /\ \E j \in (i + 3)..Len(s) : StartsAt(s, j, <<"p","r","o">>)
      [] pattern = "pro" -> Contains(s, <<"p","r","o">>)
      [] pattern = "flash" -> Contains(s, <<"f","l","a","s","h">>)
      [] pattern = "v3" -> Contains(s, <<"v","3">>)
      [] pattern = "r1" -> Contains(s, <<"r","1">>)

Rule(pattern, price) == [pattern |-> pattern, price |-> price]

PRICING_RULES ==
    [ openai |->
        [ patterns |-> << Rule("4\\.5|o3", 1500), Rule("4o|4\\.1", 250), Rule("mini|nano", 50) >>,
          default |-> 500, provider |-> P_OpenAI ],
      anthropic |->
        [ patterns |-> << Rule("3\\.7|opus", 1500), Rule("sonnet", 300), Rule("haiku", 80) >>,
          default |-> 300, provider |-> P_Anthropic ],
      google |->
        [ patterns |-> << Rule("2\\.5.*pro", 125), Rule("pro", 125), Rule("flash", 15) >>,
          default |-> 100, provider |-> P_Google ],
      deepseek |->
        [ patterns |-> << Rule("v3", 27), Rule("r1", 55) >>,
          default |-> 50, provider |-> P_DeepSeek ],
      alibaba |-> [ patterns |-> <<>>, default |-> 90, provider |-> P_Alibaba ],
      xai |-> [ patterns |-> <<>>, default |-> 200, provider |-> P_xAI ] ]

family_checks ==
    << [family |-> "openai", keywords |-> {S_gpt, S_openai}],
       [family |-> "anthropic", keywords |-> {S_claude, S_anthropic}],
       [family |-> "google", keywords |-> {S_gemini, S_google}],
       [family |-> "deepseek", keywords |-> {S_deepseek}],
       [family |-> "alibaba", keywords |-> {S_qwen, S_alibaba}],
       [family |-> "xai", keywords |-> {S_grok, S_xai}] >>

\* _determine_provider_family with the last family that matches returned
determine_provider_family_last(model_lower, org_lower) ==
    LET hits == {i \in DOMAIN family_checks :
                    \E keyword \in family_checks[i].keywords :
                        Contains(model_lower, keyword) \/ Contains(org_lower, keyword)}
    IN IF hits = {} THEN ""
       ELSE family_checks[CHOOSE i \in hits : \A j \in hits : i >= j].family

\* DefaultPricingEstimator._determine_provider_family ("" stands for None)
determine_provider_family(model_lower, org_lower) ==
    LET hits == {i \in DOMAIN family_checks :
                    \E keyword \in family_checks[i].keywords :
                        Contains(model_lower, keyword) \/ Contains(org_lower, keyword)}
    IN IF hits = {} THEN ""
       ELSE family_checks[CHOOSE i \in hits : \A j \in hits : i <= j].family

\* the fallback price of estimate_pricing
FALLBACK_PRICE == 100

\* estimate_pricing with the last rule that matches deciding the price
estimate_pricing_last_rule(model_name, organization) ==
    LET model_lower == Lower(model_name)
        org_lower == Lower(organization)
        provider_family == determine_provider_family(model_lower, org_lower)
    IN IF provider_family \in DOMAIN PRICING_RULES
       THEN LET rules == PRICING_RULES[provider_family]
                hits == {i \in DOMAIN rules.patterns :
                            PatternFound(rules.patterns[i].pattern, model_lower)}
            IN IF hits # {}
               THEN [price |-> rules.patterns[CHOOSE i \in hits : \A j \in hits : i >= j].price,
                     provider |-> rules.provider]
               ELSE [price |-> rules.default, provider |-> rules.provider]
       ELSE [price |-> FALLBACK_PRICE,
             provider |-> IF organization # <<>> THEN organization ELSE P_Unknown]

\* DefaultPricingEstimator.estimate_pricing
estimate_pricing(model_name, organization) ==
    LET model_lower == Lower(model_name)
        org_lower == Lower(organization)
        provider_family == determine_provider_family(model_lower, org_lower)
    IN IF provider_family \in DOMAIN PRICING_RULES
       THEN LET rules == PRICING_RULES[provider_family]
                hits == {i \in DOMAIN rules.patterns :
                            PatternFound(rules.patterns[i].pattern, model_lower)}
            IN IF hits # {}
               THEN [price |-> rules.patterns[CHOOSE i \in hits : \A j \in hits : i <= j].price,
                     provider |-> rules.provider]
               ELSE [price |-> rules.default, provider |-> rules.provider]
       ELSE [price |-> FALLBACK_PRICE,
             provider |-> IF organization # <<>> THEN organization ELSE P_Unknown]

(***************************************************************************)
(* DataSynthesizer._process_model                                          *)
(***************************************************************************)
\* dict.get(key, default); a rank entry is a function from its keys
DictGet(d, key, default) == IF key \in DOMAIN d THEN d[key] ELSE default

\* bool(model.get(key)) for a numeric field: present and not 0
TruthyNumber(d, key) == key \in DOMAIN d /\ d[key] # 0

ModelData(model, elo, price, cheapest_provider, votes, matched_price_model) ==
    [model |-> model, elo |-> elo, price |-> price,
     cheapest_provider |-> cheapest_provider, votes |-> votes,
     matched_price_model |-> matched_price_model]

MatchingDebugInfo(rank_model, matched_price_model, price, provider) ==
    [rank_model |-> rank_model, matched_price_model |-> matched_price_model,
     price |-> price, provider |-> provider]

\* what _process_model returns when it returns None at line 358
Skipped == [emit |-> FALSE, outcome |-> "skipped", strategy |-> "none", info |-> None,
            estimated |-> FALSE, model_data |-> None, debug_info |-> None]

\* int(round(elo_score)) of a score in tenths: Python rounds a half to the even
\* neighbour
Round(tenths) ==
    LET q == tenths \div 10
        r == tenths % 10
    IN IF r < 5 THEN q
       ELSE IF r > 5 THEN q + 1
       ELSE IF q % 2 = 0 THEN q ELSE q + 1

\* lines 362-399, given the matcher's answer m and the estimator's est (read
\* only where the code calls the estimator)
Records(model_name, elo_score, votes, m, est, excl_free) ==
    IF m.info # None
    THEN [emit |-> TRUE, outcome |-> "built", strategy |-> m.strategy, info |-> m.info,
          estimated |-> FALSE,
          model_data |-> ModelData(model_name, Round(elo_score), m.info.price, m.info.provider,
                                   votes, m.info.original_name),
          debug_info |-> MatchingDebugInfo(model_name, m.info.original_name,
                                           m.info.price, m.info.provider)]
    ELSE IF excl_free /\ est.price <= 0
    THEN [emit |-> FALSE, outcome |-> "free", strategy |-> m.strategy, info |-> m.info,
          estimated |-> TRUE,
          model_data |-> None, debug_info |-> None]
    ELSE [emit |-> TRUE, outcome |-> "built", strategy |-> m.strategy, info |-> m.info,
          estimated |-> TRUE,
          model_data |-> ModelData(model_name, Round(elo_score), est.price, est.provider,
                                   votes, model_name),
          debug_info |-> MatchingDebugInfo(model_name, DEFAULT_ESTIMATE,
                                           est.price, est.provider)]

\* organization.lower() (line 206) raises AttributeError when organization is None
EstimateRaises(organization) == organization = Null

\* how _process_model ends when estimate_pricing raises
Raised(m) == [emit |-> FALSE, outcome |-> "raised", strategy |-> m.strategy, info |-> m.info,
              estimated |-> TRUE, model_data |-> None, debug_info |-> None]

\* lines 362-399, given the matcher's answer m: the estimator is called only
\* when there is no match
RecordsOrRaise(model_name, elo_score, votes, organization, m, excl_free) ==
    IF m.info = None /\ EstimateRaises(organization)
    THEN Raised(m)
    ELSE Records(model_name, elo_score, votes, m,
                 estimate_pricing(model_name, organization), excl_free)

\* lines 360-399, for a rank entry that passed the validation
BuildRecords(model_name, elo_score, votes, organization, lookup, excl_free) ==
    RecordsOrRaise(model_name, elo_score, votes, organization,
                   find_match(lookup, model_name), excl_free)

\* lines 401-407 left out: every built pair is returned
KeepAll(b) == IF b.emit THEN [b EXCEPT !.outcome = "emitted"] ELSE b

\* lines 401-407: default estimates and unknown providers are not returned
DropDefaults(b) ==
    IF ~b.emit THEN b
    ELSE IF \/ b.debug_info.matched_price_model = DEFAULT_ESTIMATE
            \/ b.debug_info.provider = P_Unknown
    THEN [b EXCEPT !.emit = FALSE, !.outcome = "dropped"]
    ELSE [b EXCEPT !.outcome = "emitted"]

\* lines 352-358, then the rest of _process_model
Validated(model_name, model, lookup, excl_free) ==
    IF ~(model_name # <<>> /\ TruthyNumber(model, "Score") /\ TruthyNumber(model, "Votes"))
    THEN Skipped
    ELSE DropDefaults(BuildRecords(model_name, model["Score"], model["Votes"],
                                   DictGet(model, "Organization", <<>>), lookup, excl_free))

\* _process_model with the debug record naming the matched catalog entry as
\* its rank model
MisnameDebug(r) ==
    IF r.emit THEN [r EXCEPT !.debug_info.rank_model = r.debug_info.matched_price_model]
    ELSE r

process_model_misnamed(model, lookup, excl_free) ==
    MisnameDebug(Validated(Strip(DictGet(model, "Model", <<>>)), model, lookup, excl_free))

\* DataSynthesizer._process_model: emit is FALSE where the code returns None
process_model(model, lookup, excl_free) ==
    Validated(Strip(DictGet(model, "Model", <<>>)), model, lookup, excl_free)

(***************************************************************************)
(* DataSynthesizer._generate_js_content: display names                     *)
(***************************************************************************)
\* (\d{8}|\d{6}|\d{4}-\d{2}-\d{2}|\d{2}-\d{2})
MatchDateToken(s, i) ==
    IF DigitsAt(s, i, 8) THEN 8
    ELSE IF DigitsAt(s, i, 6) THEN 6
    ELSE IF /\ DigitsAt(s, i, 4) /\ StartsAt(s, i + 4, <<"-">>) /\ DigitsAt(s, i + 5, 2)
            /\ StartsAt(s, i + 7, <<"-">>) /\ DigitsAt(s, i + 8, 2)
         THEN 10
    ELSE IF DigitsAt(s, i, 2) /\ StartsAt(s, i + 2, <<"-">>) /\ DigitsAt(s, i + 3, 2) THEN 5
    ELSE 0

\* ([vV]\d+(\.\d+)*)
MatchVersionToken(s, i) ==
    LET RECURSIVE groups(_)
        groups(k) == IF StartsAt(s, k, <<".">>) /\ DigitAt(s, k + 1)
                     THEN 1 + DigitRun(s, k + 1) + groups(k + 1 + DigitRun(s, k + 1))
                     ELSE 0
    IN IF (StartsAt(s, i, <<"v">>) \/ StartsAt(s, i, <<"V">>)) /\ DigitAt(s, i + 1)
       THEN 1 + DigitRun(s, i + 1) + groups(i + 1 + DigitRun(s, i + 1))
       ELSE 0

\* (\d{8}|\d{6}|\d{4}-\d{2}-\d{2}|\d{2}-\d{2}|[vV]\d+(\.\d+)*)
MatchDateOrVersion(s, i) ==
    IF MatchDateToken(s, i) > 0 THEN MatchDateToken(s, i) ELSE MatchVersionToken(s, i)

\* \s\s+
MatchSpaces(s, i) ==
    LET RECURSIVE run(_)
        run(k) == IF k <= Len(s) /\ IsSpace(s[k]) THEN 1 + run(k + 1) ELSE 0
    IN IF i <= Len(s) /\ run(i) >= 2 THEN run(i) ELSE 0

\* the group(1) of re.search(pattern, s), <<>> when there is no match
GroupAt(s, i, n) == IF i = 0 THEN <<>> ELSE SubSeq(s, i, i + n - 1)

SearchGroup(s, M(_, _)) ==
    LET i == ReSearch(s, M)
    IN GroupAt(s, i, IF i = 0 THEN 0 ELSE M(s, i))

\* lines 472-473 left out
KeepSlashes(s) == s

\* s.split("/")[-1]
AfterLastSlash(s) ==
    LET slashes == {i \in DOMAIN s : s[i] = "/"}
    IN IF slashes = {} THEN s
       ELSE SubSeq(s, 1 + (CHOOSE i \in slashes : \A j \in slashes : i >= j), Len(s))

\* lines 457-460 with the version token tried first
PickSuffixVersionFirst(date_match, version_match) ==
    IF version_match # <<>> THEN version_match ELSE date_match

\* lines 457-460: date first, <<>> standing for None
PickSuffix(date_match, version_match) ==
    IF date_match # <<>> THEN date_match ELSE version_match

\* lines 453-460: the suffix
Suffix(rank_name) ==
    PickSuffix(SearchGroup(rank_name, MatchDateToken),
               SearchGroup(rank_name, MatchVersionToken))

\* lines 464-465
BaseName(matched_price_model) ==
    ReSub(Strip(ReSub(matched_price_model, MatchDateOrVersion, ReplEmpty)),
          MatchSpaces, ReplSpace)

\* matched_model_counts[name]
MatchedCount(data, name) ==
    Cardinality({j \in DOMAIN data : data[j].matched_price_model = name})

\* lines 462-469 with the matched catalog name as the fallback
DisambiguatedOrCatalogName(item, suffix) ==
    IF suffix # <<>>
    THEN BaseName(item.matched_price_model) \o <<" ", "(">> \o suffix \o <<")">>
    ELSE item.matched_price_model

\* lines 462-469, given the suffix
Disambiguated(item, suffix) ==
    IF suffix # <<>>
    THEN BaseName(item.matched_price_model) \o <<" ", "(">> \o suffix \o <<")">>
    ELSE item.model

\* lines 462-469 with the separators of the base name turned into spaces
DisambiguatedSpaced(item, suffix) ==
    IF suffix # <<>>
    THEN ReSub(BaseName(item.matched_price_model), MatchSeparators, ReplSpace)
             \o <<" ", "(">> \o suffix \o <<")">>
    ELSE item.model

display_name_spaced(data, item) ==
    AfterLastSlash(IF MatchedCount(data, item.matched_price_model) > 1
                   THEN DisambiguatedSpaced(item, Suffix(item.model))
                   ELSE item.matched_price_model)

\* lines 449-473: the display name of one item of synthesized_data
display_name(data, item) ==
    AfterLastSlash(IF MatchedCount(data, item.matched_price_model) > 1
                   THEN Disambiguated(item, Suffix(item.model))
                   ELSE item.matched_price_model)

\* the records of _generate_js_content in the opposite order
generate_js_content_reversed(data) ==
    [i \in DOMAIN data |->
        [model |-> display_name(data, data[Len(data) + 1 - i]),
         elo |-> data[Len(data) + 1 - i].elo,
         price |-> data[Len(data) + 1 - i].price,
         cheapest_provider |-> data[Len(data) + 1 - i].cheapest_provider,
         votes |-> data[Len(data) + 1 - i].votes]]

\* the records of _generate_js_content, in the order of synthesized_data
generate_js_content(data) ==
    [i \in DOMAIN data |->
        [model |-> display_name(data, data[i]), elo |-> data[i].elo,
         price |-> data[i].price, cheapest_provider |-> data[i].cheapest_provider,
         votes |-> data[i].votes]]

(***************************************************************************)
(* DataSynthesizer.generate                                                *)
(***************************************************************************)
\* generate is not running
PipelineOff ==
    /\ pc = "off"
    /\ min_elo = 0
    /\ exclude_free = FALSE
    /\ price_data = <<>>
    /\ rank_data = <<>>
    /\ price_lookup = <<>>
    /\ idx = 0
    /\ synthesized_data = <<>>
    /\ matching_debug = <<>>
    /\ trace = <<>>
    /\ records = <<>>
    /\ run_no = 1
    /\ first_run = None

\* normalize is not under test
NormOff ==
    /\ nm_pc = "off"
    /\ nm_in = <<>>
    /\ nm_once = <<>>
    /\ nm_twice = <<>>

\* no single call is under way
CallOff ==
    /\ call_pc = "off"
    /\ call = [fn |-> "", a |-> <<>>, b |-> <<>>]
    /\ ret = 0

\* a date that is absent (None), and a last_updated that strptime cannot parse
NoDate == 0
BadDate == -1

\* the tuple check_if_update_needed returns ("" and NoDate standing for None)
CheckResult(needs_update, latest_file, latest_date, file_type) ==
    [needs_update |-> needs_update, latest_file |-> latest_file,
     latest_date |-> latest_date, file_type |-> file_type]

\* the pair fetch_latest_leaderboard_df returns
Fetched(df, date) == [df |-> df, date |-> date]

\* fetch_latest_leaderboard_df is not running
FetchOff ==
    /\ fetch_pc = "off"
    /\ current_date = NoDate
    /\ repo = [api_ok |-> FALSE, files |-> {}]
    /\ readable = {}
    /\ check = CheckResult(FALSE, None, NoDate, "")
    /\ downloads = <<>>
    /\ fetched = Fetched(None, NoDate)

AuxOff == CallOff /\ FetchOff

Init ==
    /\ nm_pc = "off"
    /\ nm_in = <<>>
    /\ nm_once = <<>>
    /\ nm_twice = <<>>
    /\ pc = "load"
    /\ \E c \in Configs : min_elo = c.min_elo /\ exclude_free = c.exclude_free
    /\ price_data \in SeqsUpTo(CatalogEntries, MaxCatalog)
    /\ rank_data \in SubLists(Leaderboard, MaxRank)
    /\ price_lookup = <<>>
    /\ idx = 0
    /\ synthesized_data = <<>>
    /\ matching_debug = <<>>
    /\ trace = <<>>
    /\ records = <<>>
    /\ run_no = 1
    /\ first_run = None
    /\ AuxOff

\* model["name"] and model["inputPrice"] (lines 326-327) raise KeyError on an
\* entry that lacks the key
PriceEntryOk(entry) == {"name", "inputPrice"} \subseteq DOMAIN entry.model

\* lines 266-274; an exception of _load_price_data leaves generate (lines 294-296)
LoadData ==
    /\ pc = "load"
    /\ IF \A i \in DOMAIN price_data : PriceEntryOk(price_data[i])
       THEN /\ price_lookup' = load_price_data(price_data)
            /\ pc' = "loop"
       ELSE /\ pc' = "raised"
            /\ UNCHANGED price_lookup
    /\ UNCHANGED <<min_elo, exclude_free, price_data, rank_data, idx, synthesized_data,
                   matching_debug, trace, records>>
    /\ UNCHANGED nmVars
    /\ UNCHANGED auxVars
    /\ UNCHANGED runVars

\* what the loop did with one rank entry: the return statement of find_match
\* (strategy) and what it returned (info), whether estimate_pricing was called,
\* and how _process_model ended (outcome)
TraceEntry(model, r) ==
    [name |-> DictGet(model, "Model", <<>>),
     organization |-> DictGet(model, "Organization", <<>>), outcome |-> r.outcome,
     strategy |-> r.strategy, info |-> r.info, estimated |-> r.estimated]

Filtered(model) ==
    [name |-> DictGet(model, "Model", <<>>),
     organization |-> DictGet(model, "Organization", <<>>), outcome |-> "filtered",
     strategy |-> "none", info |-> None, estimated |-> FALSE]

\* find_match storing what it resolved under the lowercased rank name, to find
\* it by the direct match the next time
IndexWithCache(lookup, model, result) ==
    IF result.info # None
    THEN Put(lookup, [result.info EXCEPT !.key = Lower(Strip(model["Model"]))])
    ELSE lookup

\* self.price_lookup after one call of _process_model: find_match, _fuzzy_match
\* and the estimator read the dict and store nothing into it (lines 77-133,
\* 202-248)
IndexAfter(lookup, model, result) == lookup

\* line 277 with <= for <
AtOrBelowMinimum(model, minimum) == model["Score"] <= minimum * 10

\* line 277: model["Score"] < self.min_elo, the score counted in tenths
BelowMinimum(model, minimum) == model["Score"] < minimum * 10

\* lines 276-284: one iteration of the loop over rank_data; model["Score"]
\* raises KeyError on an entry without the key, and estimate_pricing raises
\* AttributeError on an organization that is None: both leave generate
LoopStep ==
    /\ pc = "loop"
    /\ idx < Len(rank_data)
    /\ LET model == rank_data[idx + 1]
       IN IF "Score" \notin DOMAIN model
          THEN /\ pc' = "raised"
               /\ UNCHANGED <<idx, trace, synthesized_data, matching_debug, price_lookup>>
          ELSE IF BelowMinimum(model, min_elo)
          THEN /\ trace' = Append(trace, Filtered(model))
               /\ idx' = idx + 1
               /\ UNCHANGED <<pc, synthesized_data, matching_debug, price_lookup>>
          ELSE LET result == process_model(model, price_lookup, exclude_free)
               IN IF result.outcome = "raised"
                  THEN /\ pc' = "raised"
                       /\ UNCHANGED <<idx, trace, synthesized_data, matching_debug,
                                      price_lookup>>
                  ELSE /\ trace' = Append(trace, TraceEntry(model, result))
                       /\ idx' = idx + 1
                       /\ pc' = pc
                       /\ price_lookup' = IndexAfter(price_lookup, model, result)
                       /\ IF result.emit
                          THEN /\ synthesized_data' =
                                      Append(synthesized_data, result.model_data)
                               /\ matching_debug' = Append(matching_debug, result.debug_info)
                          ELSE UNCHANGED <<synthesized_data, matching_debug>>
    /\ UNCHANGED <<min_elo, exclude_free, price_data, rank_data, records>>
    /\ UNCHANGED nmVars
    /\ UNCHANGED auxVars
    /\ UNCHANGED runVars

\* lines 287 and 409-436: _save_results, which builds the records of the JS file
SaveResults ==
    /\ pc = "loop"
    /\ idx = Len(rank_data)
    /\ records' = generate_js_content(synthesized_data)
    /\ pc' = "done"
    /\ UNCHANGED <<min_elo, exclude_free, price_data, rank_data, price_lookup, idx,
                   synthesized_data, matching_debug, trace>>
    /\ UNCHANGED nmVars
    /\ UNCHANGED auxVars
    /\ UNCHANGED runVars

Next == LoadData \/ LoopStep \/ SaveResults

Spec == Init /\ [][Next]_vars

(***************************************************************************)
(* Runs at the edges of the input contract: entries that lack a field,     *)
(* scores at the minimum, a free catalog entry, a negative minimum; and a  *)
(* second call of generate on the same files.                              *)
(***************************************************************************)
N_open_llm == <<"o","p","e","n","-","l","l","m">>

\* price_data.json entries, two of them without a key _load_price_data reads
EdgeCatalogEntries ==
    { PriceEntry(P_OpenAI, N_gpt4o, 250),
      PriceEntry(P_OpenAI, N_gpt4o_latest, 500),
      PriceEntry(P_Acme, N_open_llm, 0),
      [provider |-> P_Acme, model |-> [name |-> N_FamilyX]],
      [provider |-> P_Acme, model |-> [inputPrice |-> 100]] }

\* rank_data.json entries: without "Model", without "Score", at 1300.0 (some with
\* an organization that is null or missing, or with no votes), at 1250.0, at
\* 1249.5 and at 0
EdgeLeaderboard ==
    << [Score |-> 13000, Votes |-> 500, Organization |-> P_Acme],
       [Model |-> N_gpt4o, Votes |-> 500, Organization |-> P_OpenAI],
       RankEntry(N_gpt5, 13000, 500, Null),
       [Model |-> N_gpt5, Score |-> 13000, Votes |-> 500],
       RankEntry(N_gpt4o, 13000, 0, P_OpenAI),
       RankEntry(N_open_llm, 13000, 500, P_Acme),
       RankEntry(N_gpt4o_mini, 13000, 500, P_OpenAI),
       RankEntry(N_gpt4o, 12500, 500, P_OpenAI),
       RankEntry(N_gpt4o_dated, 12495, 500, P_OpenAI),
       RankEntry(N_gpt4o, 0, 500, P_OpenAI) >>

\* DataSynthesizer(), main's DataSynthesizer(min_elo=0, exclude_free=False),
\* and DataSynthesizer(min_elo=-1)
EdgeConfigs ==
    { [min_elo |-> 1250, exclude_free |-> TRUE],
      [min_elo |-> 0, exclude_free |-> FALSE],
      [min_elo |-> -1, exclude_free |-> TRUE] }

EdgeInit ==
    /\ nm_pc = "off"
    /\ nm_in = <<>>
    /\ nm_once = <<>>
    /\ nm_twice = <<>>
    /\ pc = "load"
    /\ \E c \in EdgeConfigs : min_elo = c.min_elo /\ exclude_free = c.exclude_free
    /\ price_data \in SeqsUpTo(EdgeCatalogEntries, MaxCatalog)
    /\ rank_data \in SubLists(EdgeLeaderboard, MaxRank)
    /\ price_lookup = <<>>
    /\ idx = 0
    /\ synthesized_data = <<>>
    /\ matching_debug = <<>>
    /\ trace = <<>>
    /\ records = <<>>
    /\ run_no = 1
    /\ first_run = None
    /\ AuxOff

\* lines 273-274 with the lists kept from the call before
StaleList(old) == old

\* lines 273-274: synthesized_data = [], matching_debug = []
FreshList(old) == <<>>

\* what a call of generate hands to _save_results
Produced ==
    [synthesized_data |-> synthesized_data, matching_debug |-> matching_debug,
     records |-> records]

\* generate is called again, the data files unchanged: its locals are new
\* (lines 266-274)
Rerun ==
    /\ pc = "done"
    /\ run_no = 1
    /\ run_no' = 2
    /\ first_run' = Produced
    /\ pc' = "load"
    /\ idx' = 0
    /\ price_lookup' = <<>>
    /\ synthesized_data' = FreshList(synthesized_data)
    /\ matching_debug' = FreshList(matching_debug)
    /\ trace' = <<>>
    /\ records' = <<>>
    /\ UNCHANGED <<min_elo, exclude_free, price_data, rank_data>>
    /\ UNCHANGED nmVars
    /\ UNCHANGED auxVars

EdgeNext == LoadData \/ LoopStep \/ SaveResults \/ Rerun

EdgeSpec == EdgeInit /\ [][EdgeNext]_vars

(***************************************************************************)
(* Runs that end in shared catalog names: rank names with date and version *)
(* tokens, names with a vendor path prefix on either side.                 *)
(***************************************************************************)
MaxNames == 3

NameInit ==
    /\ NormOff
    /\ pc = "load"
    /\ \E c \in Configs : min_elo = c.min_elo /\ exclude_free = c.exclude_free
    /\ price_data \in SeqsUpTo(NameCatalogEntries, MaxCatalog)
    /\ rank_data \in SubLists(NameLeaderboard, MaxNames)
    /\ price_lookup = <<>>
    /\ idx = 0
    /\ synthesized_data = <<>>
    /\ matching_debug = <<>>
    /\ trace = <<>>
    /\ records = <<>>
    /\ run_no = 1
    /\ first_run = None
    /\ AuxOff

NameSpec == NameInit /\ [][Next]_vars

(***************************************************************************)
(* Harness of the normalizer: a string built from name fragments is        *)
(* normalized, and the result normalized again.                            *)
(***************************************************************************)
MaxFrags == 3

NameFragments ==
    { <<"g","p","t">>, <<"-","4","o">>, <<"-","2","0","2","4","-","0","8","-","0","6">>,
      <<"-","0","5","2","8">>, <<"-","c","h","a","t">>, <<"v">>, <<"1">>,
      <<"7","0","b">>, <<"-">>, <<"_">>, <<"P","r","e","v","i","e","w">>, <<" ">> }

RECURSIVE FragStrings(_)
FragStrings(n) ==
    IF n = 0 THEN {<<>>}
    ELSE LET shorter == FragStrings(n - 1)
         IN shorter \cup {s \o f : s \in shorter, f \in NameFragments}

NormInputs == FragStrings(MaxFrags)

NormInit ==
    /\ nm_pc = "input"
    /\ nm_in \in NormInputs
    /\ nm_once = <<>>
    /\ nm_twice = <<>>
    /\ pc = "off"
    /\ min_elo = 0
    /\ exclude_free = FALSE
    /\ price_data = <<>>
    /\ rank_data = <<>>
    /\ price_lookup = <<>>
    /\ idx = 0
    /\ synthesized_data = <<>>
    /\ matching_debug = <<>>
    /\ trace = <<>>
    /\ records = <<>>
    /\ run_no = 1
    /\ first_run = None
    /\ AuxOff

NormalizeOnce ==
    /\ nm_pc = "input"
    /\ nm_once' = normalize(nm_in)
    /\ nm_pc' = "once"
    /\ UNCHANGED <<nm_in, nm_twice>>
    /\ UNCHANGED plVars
    /\ UNCHANGED auxVars

NormalizeTwice ==
    /\ nm_pc = "once"
    /\ nm_twice' = normalize(nm_once)
    /\ nm_pc' = "twice"
    /\ UNCHANGED <<nm_in, nm_once>>
    /\ UNCHANGED plVars
    /\ UNCHANGED auxVars

NormNext == NormalizeOnce \/ NormalizeTwice

NormSpec == NormInit /\ [][NormNext]_vars

(***************************************************************************)
(* Harness of single calls: _calculate_family_bonus on a pair of           *)
(* lowercased names, estimate_pricing on a name and an organization.       *)
(***************************************************************************)
\* names handed to _calculate_family_bonus (lowercased by its caller, line 131)
BonusNames ==
    { <<"g","p","t","-","4","o">>,
      <<"g","p","t","-","4">>,
      <<"g","p","t","-","4",".","1">>,
      <<"g","p","t","-","4",".","-","x">>,
      <<"g","p","t">>,
      <<"g","e","m","i","n","i","-","g","p","t","-","4">>,
      <<"g","p","t","-","g","e","m","i","n","i","-","4",".","1">>,
      <<"q","w","e","n","-","g","r","o","k","-","g","p","t">>,
      <<"c","l","a","u","d","e","-","4">>,
      <<"l","l","a","m","a","-","4">>,
      <<"f","a","m","i","l","y","-","x">> }

\* names and organizations handed to estimate_pricing
EstimateNames ==
    { <<"g","p","t","-","4","o","-","m","i","n","i">>,
      <<"o","3","-","m","i","n","i">>,
      <<"G","P","T","-","4",".","5">>,
      <<"c","l","a","u","d","e","-","3","-","o","p","u","s">>,
      <<"c","l","a","u","d","e","-","3",".","7","-","s","o","n","n","e","t">>,
      <<"c","l","a","u","d","e","-","g","p","t","-","h","a","i","k","u">>,
      <<"g","e","m","i","n","i","-","2",".","5","-","p","r","o">>,
      <<"g","e","m","i","n","i","-","f","l","a","s","h","-","p","r","o">>,
      <<"d","e","e","p","s","e","e","k","-","r","1","-","v","3">>,
      <<"q","w","e","n","-","m","a","x">>,
      <<"g","r","o","k","-","2">>,
      <<"m","y","s","t","e","r","y","-","p","r","o">> }

EstimateOrganizations ==
    { <<>>, P_OpenAI, P_Anthropic, P_Google, P_xAI, P_Acme, S_openai }

Call(fn, a, b) == [fn |-> fn, a |-> a, b |-> b]

CallInputs ==
    {Call("calculate_family_bonus", a, b) : a \in BonusNames, b \in BonusNames}
        \cup {Call("estimate_pricing", a, b) : a \in EstimateNames, b \in EstimateOrganizations}

CallInit ==
    /\ call_pc = "ready"
    /\ call \in CallInputs
    /\ ret = 0
    /\ NormOff
    /\ PipelineOff
    /\ FetchOff

\* self._calculate_family_bonus(model_lower, price_model.lower()), line 131
CallFamilyBonus ==
    /\ call_pc = "ready"
    /\ call.fn = "calculate_family_bonus"
    /\ ret' = calculate_family_bonus(call.a, call.b)
    /\ call_pc' = "returned"
    /\ UNCHANGED call
    /\ UNCHANGED <<nmVars, plVars, fetchVars>>

\* DefaultPricingEstimator.estimate_pricing(model_name, organization), line 378
CallEstimate ==
    /\ call_pc = "ready"
    /\ call.fn = "estimate_pricing"
    /\ ret' = estimate_pricing(call.a, call.b)
    /\ call_pc' = "returned"
    /\ UNCHANGED call
    /\ UNCHANGED <<nmVars, plVars, fetchVars>>

CallNext == CallFamilyBonus \/ CallEstimate

CallSpec == CallInit /\ [][CallNext]_vars

(***************************************************************************)
(* utils/extract_leaderboard.py: fetch_latest_leaderboard_df               *)
(*                                                                         *)
(* A date is a number YYYYMMDD. A file of the repository is its kind       *)
(* ("pkl" for elo_results_<date>.pkl, "csv" for leaderboard_table_<date>   *)
(* .csv) and the date in its name, NoDate for a name without a date.       *)
(* A data frame is known by the file it was read from.                     *)
(***************************************************************************)
D_0701 == 20250701
D_0801 == 20250801
D_0901 == 20250901

RepoFile(kind, date) == [kind |-> kind, date |-> date]

RepoFiles ==
    { RepoFile("pkl", D_0701), RepoFile("pkl", D_0801), RepoFile("csv", D_0801),
      RepoFile("csv", D_0901), RepoFile("pkl", NoDate) }

CurrentDates == {NoDate, BadDate, D_0701, D_0801}

\* lines 47-77: the latest of the dated files, the pkl files first; a csv file
\* replaces a pkl file only when its date is later
LatestOf(files) ==
    LET dated == {f \in files : f.date # NoDate}
        pkl == {f \in dated : f.kind = "pkl"}
        csv == {f \in dated : f.kind = "csv"}
        newest(S) == CHOOSE f \in S : \A g \in S : g.date <= f.date
    IN IF dated = {} THEN None
       ELSE IF pkl = {} THEN newest(csv)
       ELSE IF csv # {} /\ newest(csv).date > newest(pkl).date THEN newest(csv)
       ELSE newest(pkl)

\* get_latest_elo_file_date: None when the repository does not answer (line
\* 86-88), holds no file (lines 43-45) or no file with a date (lines 82-84)
get_latest_elo_file_date(r) ==
    IF ~r.api_ok \/ r.files = {} THEN None ELSE LatestOf(r.files)

\* lines 110-124 of check_if_update_needed, given the latest file
CompareDates(current, latest) ==
    IF current = BadDate THEN CheckResult(FALSE, None, NoDate, "")
    ELSE IF current # NoDate
    THEN IF latest.date > current
         THEN CheckResult(TRUE, latest, latest.date, latest.kind)
         ELSE CheckResult(FALSE, latest, latest.date, latest.kind)
    ELSE CheckResult(TRUE, latest, latest.date, latest.kind)

\* lines 106-124, given what get_latest_elo_file_date returned
CheckLatest(current, latest_info) ==
    IF latest_info = None THEN CheckResult(FALSE, None, NoDate, "")
    ELSE CompareDates(current, latest_info)

\* check_if_update_needed; a last_updated that cannot be parsed raises in
\* strptime, and the except clause returns (False, None, None, None)
check_if_update_needed(current, r) == CheckLatest(current, get_latest_elo_file_date(r))

\* download_and_process_elo_file and download_and_process_csv_file: the data
\* frame, or None when the download or the processing fails
Process(file) == IF file \in repo.files /\ file \in readable THEN file ELSE None

\* line 438 with the fallback taken whatever the kind of the failed file
FallbackAlways(file_type) == TRUE

\* line 438: if file_type == 'pkl'
FallbackAllowed(file_type) == file_type = "pkl"

FetchInit ==
    /\ fetch_pc = "check"
    /\ current_date \in CurrentDates
    /\ \E ok \in BOOLEAN, files \in SUBSET RepoFiles : repo = [api_ok |-> ok, files |-> files]
    /\ readable \in SUBSET repo.files
    /\ check = CheckResult(FALSE, None, NoDate, "")
    /\ downloads = <<>>
    /\ fetched = Fetched(None, NoDate)
    /\ NormOff
    /\ PipelineOff
    /\ CallOff

\* lines 413-421: the check, and the two returns that need no download
FetchCheck ==
    /\ fetch_pc = "check"
    /\ LET c == check_if_update_needed(current_date, repo)
       IN /\ check' = c
          /\ IF ~c.needs_update
             THEN fetch_pc' = "returned" /\ fetched' = Fetched(None, c.latest_date)
             ELSE IF c.latest_file = None
             THEN fetch_pc' = "returned" /\ fetched' = Fetched(None, NoDate)
             ELSE fetch_pc' = "download" /\ UNCHANGED fetched
    /\ UNCHANGED <<current_date, repo, readable, downloads>>
    /\ UNCHANGED <<nmVars, plVars, callVars>>

\* lines 424-438 and 453-455: the latest file is downloaded and processed
FetchDownload ==
    /\ fetch_pc = "download"
    /\ downloads' = Append(downloads, check.latest_file)
    /\ IF check.file_type \notin {"pkl", "csv"}
       THEN fetch_pc' = "returned" /\ fetched' = Fetched(None, NoDate)
       ELSE IF Process(check.latest_file) # None
       THEN /\ fetch_pc' = "returned"
            /\ fetched' = Fetched(Process(check.latest_file), check.latest_date)
       ELSE IF FallbackAllowed(check.file_type)
       THEN fetch_pc' = "fallback" /\ UNCHANGED fetched
       ELSE fetch_pc' = "returned" /\ fetched' = Fetched(None, NoDate)
    /\ UNCHANGED <<current_date, repo, readable, check>>
    /\ UNCHANGED <<nmVars, plVars, callVars>>

\* lines 440-452: leaderboard_table_<date>.csv, the date that of the pkl file
FetchFallback ==
    /\ fetch_pc = "fallback"
    /\ LET csv_filename == RepoFile("csv", check.latest_file.date)
       IN /\ downloads' = Append(downloads, csv_filename)
          /\ fetch_pc' = "returned"
          /\ IF Process(csv_filename) # None
             THEN fetched' = Fetched(Process(csv_filename), check.latest_date)
             ELSE fetched' = Fetched(None, NoDate)
    /\ UNCHANGED <<current_date, repo, readable, check>>
    /\ UNCHANGED <<nmVars, plVars, callVars>>

FetchNext == FetchCheck \/ FetchDownload \/ FetchFallback

FetchSpec == FetchInit /\ [][FetchNext]_vars

\* C1: for every string s, normalize(normalize(s)) = normalize(s)
C1_Idempotent == nm_pc = "twice" => nm_twice = nm_once

(***************************************************************************)
(* Properties of the price index                                           *)
(***************************************************************************)
\* the entries of price_data whose lowercased name is key
SameKey(data, key) == {i \in DOMAIN data : Lower(data[i].model.name) = key}

\* among them, the first one of the lowest inputPrice
Cheapest(data, key) ==
    CHOOSE i \in SameKey(data, key) :
        \A j \in SameKey(data, key) :
            \/ data[i].model.inputPrice < data[j].model.inputPrice
            \/ (data[i].model.inputPrice = data[j].model.inputPrice /\ i <= j)

\* C2: of the catalog entries whose names are equal after lowercasing, the index
\* keeps exactly one under that key: the one of the lowest inputPrice, and among
\* entries of that price the first in catalog order
C2_LowestPriceFirstSeen ==
    pc # "load" =>
        \A i \in DOMAIN price_data :
            LET key == Lower(price_data[i].model.name)
                w == price_data[Cheapest(price_data, key)]
            IN /\ Cardinality({p \in DOMAIN price_lookup : price_lookup[p].key = key}) = 1
               /\ Get(price_lookup, key) =
                      PriceInfo(key, w.model.inputPrice, w.provider, w.model.name)

\* two entries of one key and one price from different providers: the first is kept
C2_Witness ==
    /\ pc # "load"
    /\ Len(price_data) = 2
    /\ Lower(price_data[1].model.name) = Lower(price_data[2].model.name)
    /\ price_data[1].model.inputPrice = price_data[2].model.inputPrice
    /\ price_data[1].provider # price_data[2].provider
    /\ Len(price_lookup) = 1
    /\ price_lookup[1].provider = price_data[1].provider

(***************************************************************************)
(* Properties of the matcher, read off the trace of the loop               *)
(***************************************************************************)
\* the rank entries that reached find_match
Matched(t) == t.outcome \in {"emitted", "dropped", "free"}

\* the score of the rank name against the i-th item of the index
ScoreAgainst(lookup, i, model_name) ==
    calculate_similarity_score(Lower(model_name), Normalized(model_name), lookup[i].key)

\* the number of normalized tokens two names share
Overlap(a, b) == Cardinality(Tokens(Normalized(a)) \cap Tokens(Normalized(b)))

\* C3: if the lowercased rank name is a key of the index, find_match returns the
\* entry stored under that key, by the exact step, whatever other candidates exist
C3_ExactFirst ==
    \A n \in DOMAIN trace :
        LET key == Lower(Strip(trace[n].name))
        IN (Matched(trace[n]) /\ HasKey(price_lookup, key)) =>
               /\ trace[n].strategy = "exact"
               /\ trace[n].info = Get(price_lookup, key)

\* an exact hit while an earlier item of the index has the same normalized name
C3_Witness ==
    \E n \in DOMAIN trace :
        LET key == Lower(Strip(trace[n].name))
        IN /\ Matched(trace[n])
           /\ HasKey(price_lookup, key)
           /\ trace[n].info.key = key
           /\ \E i \in DOMAIN price_lookup :
                  /\ i < KeyPos(price_lookup, key)
                  /\ Normalized(price_lookup[i].key) = Normalized(key)

\* C4: the fuzzy step returns a candidate exactly when the maximum score over
\* the index is strictly greater than 0.5; at 0.5 or below find_match returns
\* None and the estimator is called
C4_ThresholdStrict ==
    \A n \in DOMAIN trace :
        (Matched(trace[n]) /\ trace[n].strategy \in {"fuzzy", "none"}) =>
            LET name == Strip(trace[n].name)
                above == \E i \in DOMAIN price_lookup :
                             ScoreGT(ScoreAgainst(price_lookup, i, name), Half)
            IN /\ (trace[n].strategy = "fuzzy") <=> above
               /\ trace[n].strategy = "none" => (trace[n].info = None /\ trace[n].estimated)
               /\ trace[n].strategy = "fuzzy" =>
                      /\ trace[n].info # None
                      /\ ~trace[n].estimated
                      /\ \E i \in DOMAIN price_lookup :
                             /\ price_lookup[i] = trace[n].info
                             /\ ScoreGT(ScoreAgainst(price_lookup, i, name), Half)

\* a maximum score of exactly 0.5, and no match
C4_Witness ==
    \E n \in DOMAIN trace :
        /\ Matched(trace[n])
        /\ trace[n].strategy = "none"
        /\ trace[n].estimated
        /\ \E i \in DOMAIN price_lookup :
               ScoreEQ(ScoreAgainst(price_lookup, i, Strip(trace[n].name)), Half)

\* C5: a rank name and a catalog name that share fewer than two normalized
\* tokens score 0, and the fuzzy step never returns such a catalog entry
C5_OverlapFloor ==
    \A n \in DOMAIN trace :
        Matched(trace[n]) =>
            LET name == Strip(trace[n].name)
            IN /\ \A i \in DOMAIN price_lookup :
                      Overlap(name, price_lookup[i].key) < 2 =>
                          ScoreAgainst(price_lookup, i, name) = Zero
               /\ trace[n].strategy = "fuzzy" => Overlap(name, trace[n].info.key) >= 2

\* one shared token, a ratio and family bonus that would pass 0.5, and no match
C5_Witness ==
    \E n \in DOMAIN trace :
        LET name == Strip(trace[n].name)
        IN /\ Matched(trace[n])
           /\ trace[n].strategy = "none"
           /\ \E i \in DOMAIN price_lookup :
                  /\ Overlap(name, price_lookup[i].key) = 1
                  /\ ScoreGT(similarity_no_floor(Lower(name), Normalized(name),
                                                 price_lookup[i].key), Half)

(***************************************************************************)
(* Properties of the loop of generate                                      *)
(***************************************************************************)
\* the positions of the trace whose rank entry was appended to the lists
EmittedAt == {n \in DOMAIN trace : trace[n].outcome = "emitted"}

\* C6: after every iteration the resolved list and the debug list have the
\* same length, one record per emitted rank entry, and the i-th debug record
\* has the rank name, price and provider of the i-th resolved record
C6_ListsAligned ==
    /\ Len(synthesized_data) = Len(matching_debug)
    /\ Len(synthesized_data) = Cardinality(EmittedAt)
    /\ \A i \in DOMAIN synthesized_data :
           /\ matching_debug[i].rank_model = synthesized_data[i].model
           /\ matching_debug[i].price = synthesized_data[i].price
           /\ matching_debug[i].provider = synthesized_data[i].cheapest_provider

C6_Witness ==
    /\ pc = "done"
    /\ Len(synthesized_data) = 2
    /\ synthesized_data[1].model # synthesized_data[2].model
    /\ synthesized_data[1].matched_price_model # synthesized_data[1].model

\* C7: every rank entry that passes the score filter and the field validation
\* and for which find_match returns None yields a debug record marked
\* DEFAULT_ESTIMATE with the estimator's price and provider, and its resolved record
C7_UnmatchedEntryEmitted ==
    \A n \in DOMAIN trace :
        (Matched(trace[n]) /\ trace[n].info = None) =>
            LET name == Strip(trace[n].name)
                est == estimate_pricing(name, trace[n].organization)
            IN \E i \in DOMAIN matching_debug :
                   /\ matching_debug[i] =
                          MatchingDebugInfo(name, DEFAULT_ESTIMATE, est.price, est.provider)
                   /\ i \in DOMAIN synthesized_data
                   /\ synthesized_data[i].model = name

\* -\d{4}-\d{2}-\d{2} from position i to the end of s
IsoSuffixAt(s, i) ==
    /\ StartsAt(s, i, <<"-">>) /\ DigitsAt(s, i + 1, 4)
    /\ StartsAt(s, i + 5, <<"-">>) /\ DigitsAt(s, i + 6, 2)
    /\ StartsAt(s, i + 8, <<"-">>) /\ DigitsAt(s, i + 9, 2)
    /\ Len(s) = i + 10

\* name is catalog_name followed by an ISO date suffix
NamePlusIsoDate(name, catalog_name) ==
    /\ Len(name) = Len(catalog_name) + 11
    /\ SubSeq(name, 1, Len(catalog_name)) = catalog_name
    /\ IsoSuffixAt(name, Len(catalog_name) + 1)

\* C8 as stated: a rank name that is a catalog name plus an ISO date suffix, with
\* no exact-key hit, resolves by the normalized step to that catalog entry, and
\* the default estimator is not called
C8_ResolvesToThatEntry ==
    \A n \in DOMAIN trace :
        \A i \in DOMAIN price_lookup :
            ( /\ Matched(trace[n])
              /\ NamePlusIsoDate(Strip(trace[n].name), price_lookup[i].original_name)
              /\ ~HasKey(price_lookup, Lower(Strip(trace[n].name))) ) =>
                /\ trace[n].strategy = "normalized"
                /\ trace[n].info = price_lookup[i]
                /\ ~trace[n].estimated

\* C8: the rank name "gpt-4o-2024-08-06", with no exact-key hit and an index
\* holding the key "gpt-4o", resolves by the normalized step, without the
\* estimator, to the first item of the index whose normalized name is "gpt 4o":
\* the "gpt-4o" item unless an earlier key normalizes to the same string
C8_ResolvesToFirstNormalized ==
    \A n \in DOMAIN trace :
        ( /\ Matched(trace[n])
          /\ Strip(trace[n].name) = N_gpt4o_dated
          /\ HasKey(price_lookup, N_gpt4o)
          /\ ~HasKey(price_lookup, N_gpt4o_dated) ) =>
            LET hits == {i \in DOMAIN price_lookup :
                            normalize(price_lookup[i].key) = N_gpt_4o_normal}
                first == CHOOSE i \in hits : \A j \in hits : i <= j
            IN /\ trace[n].strategy = "normalized"
               /\ ~trace[n].estimated
               /\ KeyPos(price_lookup, N_gpt4o) \in hits
               /\ trace[n].info = price_lookup[first]
               /\ first = KeyPos(price_lookup, N_gpt4o) =>
                      trace[n].info = Get(price_lookup, N_gpt4o)

\* "gpt-4o-2024-08-06" resolved to the entry (OpenAI, "gpt-4o", 2.5) and emitted
C8_Witness ==
    \E n \in DOMAIN trace :
        /\ Strip(trace[n].name) = N_gpt4o_dated
        /\ trace[n].strategy = "normalized"
        /\ ~trace[n].estimated
        /\ trace[n].info = PriceInfo(N_gpt4o, 250, P_OpenAI, N_gpt4o)
        /\ trace[n].outcome = "emitted"
        /\ \E i \in DOMAIN synthesized_data :
               /\ synthesized_data[i].model = N_gpt4o_dated
               /\ synthesized_data[i].price = 250
               /\ synthesized_data[i].cheapest_provider = P_OpenAI

(***************************************************************************)
(* Properties of the display names                                         *)
(***************************************************************************)
Reverse(s) == [i \in DOMAIN s |-> s[Len(s) + 1 - i]]

\* C9: after collision repair, two records of one matched catalog name and of
\* different rank names have different display names, and the display name of
\* a record does not depend on the order of the list
C9_DistinctDisplayNames ==
    pc = "done" =>
        /\ \A i, j \in DOMAIN synthesized_data :
               ( /\ synthesized_data[i].matched_price_model =
                        synthesized_data[j].matched_price_model
                 /\ synthesized_data[i].model # synthesized_data[j].model ) =>
                   records[i].model # records[j].model
        /\ \A i \in DOMAIN synthesized_data :
               display_name(Reverse(synthesized_data), synthesized_data[i]) = records[i].model

D_FamilyX_0601 == <<"F","a","m","i","l","y","-","X"," ","(","2","0","2","4","0","6","0","1",")">>
D_FamilyX_0915 == <<"F","a","m","i","l","y","-","X"," ","(","2","0","2","4","0","9","1","5",")">>
D_Family_X_0601 == <<"F","a","m","i","l","y"," ","X"," ","(","2","0","2","4","0","6","0","1",")">>
D_Family_X_0915 == <<"F","a","m","i","l","y"," ","X"," ","(","2","0","2","4","0","9","1","5",")">>

\* two records matched to "Family-X", of rank names "Family-X-20240601" and
\* "Family-X-20240915"
FamilyXPair(i, j) ==
    /\ synthesized_data[i].matched_price_model = N_FamilyX
    /\ synthesized_data[j].matched_price_model = N_FamilyX
    /\ synthesized_data[i].model = N_FamilyX_0601
    /\ synthesized_data[j].model = N_FamilyX_0915

\* C10 as stated: the two records get the display names "Family X (20240601)"
\* and "Family X (20240915)"
C10_FamilyXSpaced ==
    pc = "done" =>
        \A i, j \in DOMAIN synthesized_data :
            FamilyXPair(i, j) =>
                /\ records[i].model = D_Family_X_0601
                /\ records[j].model = D_Family_X_0915

\* C10: the two records get the display names "Family-X (20240601)" and
\* "Family-X (20240915)"; a disambiguated display name is the matched catalog
\* name with its date and version tokens removed, followed by the suffix in
\* parentheses, cut after its last "/"
C10_FamilyXHyphen ==
    pc = "done" =>
        /\ \A i, j \in DOMAIN synthesized_data :
               FamilyXPair(i, j) =>
                   /\ records[i].model = D_FamilyX_0601
                   /\ records[j].model = D_FamilyX_0915
        /\ \A i \in DOMAIN synthesized_data :
               LET item == synthesized_data[i]
                   suffix == Suffix(item.model)
                   stripped == ReSub(item.matched_price_model, MatchDateOrVersion, ReplEmpty)
               IN (MatchedCount(synthesized_data, item.matched_price_model) > 1
                       /\ suffix # <<>>) =>
                      records[i].model =
                          AfterLastSlash(ReSub(Strip(stripped), MatchSpaces, ReplSpace)
                                             \o <<" ", "(">> \o suffix \o <<")">>)

C10_Witness ==
    /\ pc = "done"
    /\ Len(records) = 2
    /\ FamilyXPair(1, 2)
    /\ records[1].model = D_FamilyX_0601
    /\ records[2].model = D_FamilyX_0915

(***************************************************************************)
(* Properties of runs at the edges of the input contract                   *)
(***************************************************************************)
\* a rank entry without a name or without a score
RankLacksField(entry) == ~({"Model", "Score"} \subseteq DOMAIN entry)

\* C11: a rank or price entry that lacks a required field is skipped on its own:
\* the run does not end in an exception, it consumes every rank entry before it
\* is done, and no record is emitted for a rank entry that lacks a field
C11_SkipsAndCompletes ==
    /\ pc # "raised"
    /\ pc = "done" => Len(trace) = Len(rank_data)
    /\ \A n \in DOMAIN trace :
           RankLacksField(rank_data[n]) => trace[n].outcome = "skipped"

\* C12: with exclude_free set, no resolved record and no record of the output
\* has price 0
C12_NoFreeRecord ==
    exclude_free =>
        /\ \A i \in DOMAIN synthesized_data : synthesized_data[i].price # 0
        /\ \A i \in DOMAIN records : records[i].price # 0

\* C13: a consumed rank entry is removed by the score filter exactly when its
\* score is below min_elo, an entry at min_elo is not, and no resolved record
\* has an elo below min_elo
C13_FilterStrict ==
    /\ \A n \in DOMAIN trace :
           (trace[n].outcome = "filtered") <=> (rank_data[n]["Score"] < min_elo * 10)
    /\ \A i \in DOMAIN synthesized_data : synthesized_data[i].elo >= min_elo

\* an entry of score 1250.0 under min_elo = 1250 is emitted, with elo 1250
C13_Witness ==
    \E n \in DOMAIN trace :
        /\ min_elo = 1250
        /\ rank_data[n]["Score"] = 12500
        /\ trace[n].outcome = "emitted"
        /\ \E i \in DOMAIN synthesized_data :
               synthesized_data[i].model = rank_data[n]["Model"]
                   /\ synthesized_data[i].elo = 1250

\* the k-th smallest member of a set of positions
NthOf(I, k) == CHOOSE x \in I : Cardinality({y \in I : y < x}) = k - 1

\* C14: the resolved list is the list of the emitted rank entries in the order
\* of rank_data, each once, and the records of the output keep that order
C14_OrderKept ==
    /\ Len(synthesized_data) = Cardinality(EmittedAt)
    /\ \A k \in DOMAIN synthesized_data :
           LET entry == rank_data[NthOf(EmittedAt, k)]
           IN /\ synthesized_data[k].model = Strip(entry["Model"])
              /\ synthesized_data[k].elo = Round(entry["Score"])
              /\ synthesized_data[k].votes = entry["Votes"]
    /\ pc = "done" =>
           /\ Len(records) = Len(synthesized_data)
           /\ \A k \in DOMAIN records :
                  /\ records[k].model = display_name(synthesized_data, synthesized_data[k])
                  /\ records[k].elo = synthesized_data[k].elo
                  /\ records[k].price = synthesized_data[k].price
                  /\ records[k].cheapest_provider = synthesized_data[k].cheapest_provider

\* two rank entries emitted, with different display names and prices
C14_Witness ==
    /\ pc = "done"
    /\ EmittedAt = {1, 2}
    /\ Len(records) = 2
    /\ records[1].model # records[2].model
    /\ records[1].price # records[2].price

\* C15: a negative minimum score is rejected before any rank entry is
\* processed: no entry is consumed and the run does not produce its output
C15_NegativeMinimumRejected ==
    min_elo < 0 => (trace = <<>> /\ pc # "done")

\* every entry of both data files has the keys the code reads by subscript, and
\* no organization is null
WellFormed ==
    /\ \A i \in DOMAIN price_data : PriceEntryOk(price_data[i])
    /\ \A n \in DOMAIN rank_data :
           /\ ~RankLacksField(rank_data[n])
           /\ DictGet(rank_data[n], "Organization", <<>>) # Null

C17_Total ==
    nm_pc \in {"once", "twice"} =>
        /\ nm_once \in Seq({LowerChar(nm_in[i]) : i \in DOMAIN nm_in} \cup {" "})
        /\ nm_in = <<>> => nm_once = <<>>

C17_Witness == nm_pc = "once" /\ nm_in = <<>> /\ nm_once = <<>>

SameNormalized(lookup, model_name) ==
    {i \in DOMAIN lookup : Normalized(lookup[i].key) = Normalized(model_name)}

\* C19: with no exact-key hit and one or more index entries whose normalized
\* name equals the normalized rank name, find_match returns the first of them
\* in insertion order, by the normalized step and not by the fuzzy step
C19_FirstNormalized ==
    \A n \in DOMAIN trace :
        LET name == Strip(trace[n].name)
            hits == SameNormalized(price_lookup, name)
        IN (Matched(trace[n]) /\ ~HasKey(price_lookup, Lower(name)) /\ hits # {}) =>
               /\ trace[n].strategy = "normalized"
               /\ trace[n].info = price_lookup[NthOf(hits, 1)]

\* two entries of the same normalized name, the second one cheaper: the first
\* is returned
C19_Witness ==
    \E n \in DOMAIN trace :
        LET name == Strip(trace[n].name)
        IN /\ Matched(trace[n])
           /\ ~HasKey(price_lookup, Lower(name))
           /\ SameNormalized(price_lookup, name) = {1, 2}
           /\ price_lookup[2].price < price_lookup[1].price
           /\ trace[n].info = price_lookup[1]

\* C20: the entry the fuzzy step returns has the maximum score over the index,
\* and is the first entry in insertion order that has that score
C20_FirstMaximum ==
    \A n \in DOMAIN trace :
        (Matched(trace[n]) /\ trace[n].strategy = "fuzzy") =>
            LET name == Strip(trace[n].name)
                i == KeyPos(price_lookup, trace[n].info.key)
            IN /\ trace[n].info = price_lookup[i]
               /\ \A j \in DOMAIN price_lookup :
                      /\ ~ScoreGT(ScoreAgainst(price_lookup, j, name),
                                  ScoreAgainst(price_lookup, i, name))
                      /\ ScoreEQ(ScoreAgainst(price_lookup, j, name),
                                 ScoreAgainst(price_lookup, i, name)) => i <= j

\* two entries of the same maximum score, the second one cheaper: the first is
\* returned
C20_Witness ==
    \E n \in DOMAIN trace :
        LET name == Strip(trace[n].name)
        IN /\ Matched(trace[n])
           /\ trace[n].strategy = "fuzzy"
           /\ Len(price_lookup) = 2
           /\ ScoreEQ(ScoreAgainst(price_lookup, 1, name), ScoreAgainst(price_lookup, 2, name))
           /\ price_lookup[2].price < price_lookup[1].price
           /\ trace[n].info = price_lookup[1]

(***************************************************************************)
(* Properties of the family bonus and of the estimator, on single calls    *)
(***************************************************************************)
BonusReturned == call_pc = "returned" /\ call.fn = "calculate_family_bonus"

\* the families of MODEL_FAMILIES whose keyword occurs in both names
SharedFamilies(a, b) ==
    {f \in DOMAIN MODEL_FAMILIES :
        Contains(a, MODEL_FAMILIES[f]) /\ Contains(b, MODEL_FAMILIES[f])}

\* both names hold a numeric version token and the first ones are the same text
SameFirstVersion(a, b) ==
    /\ \E i \in DOMAIN a : IsDigit(a[i])
    /\ \E i \in DOMAIN b : IsDigit(b[i])
    /\ FirstVersion(a) = FirstVersion(b)

\* C21: the bonus of a pair of names is 0, 0.3 or 0.5: 0 when the names share no
\* family, 0.3 when they share one or more families, and 0.5 exactly when in
\* addition the first numeric version token of each exists and the two are
\* equal; sharing several families adds nothing, and there is no version bonus
\* without a shared family
C21_BonusOnce ==
    BonusReturned =>
        /\ ret \in {0, FAMILY_BONUS, FAMILY_BONUS + VERSION_BONUS}
        /\ (ret = 0) <=> (SharedFamilies(call.a, call.b) = {})
        /\ (ret = FAMILY_BONUS + VERSION_BONUS) <=>
               (SharedFamilies(call.a, call.b) # {} /\ SameFirstVersion(call.a, call.b))

\* a pair that shares two families and the version token: one bonus of 0.5
C21_Witness ==
    /\ BonusReturned
    /\ Cardinality(SharedFamilies(call.a, call.b)) >= 2
    /\ SameFirstVersion(call.a, call.b)
    /\ ret = 5

EstimateReturned == call_pc = "returned" /\ call.fn = "estimate_pricing"

\* the families in their fixed order, each with its keywords and its label
FamilyOrder ==
    << [keywords |-> {S_gpt, S_openai}, label |-> P_OpenAI],
       [keywords |-> {S_claude, S_anthropic}, label |-> P_Anthropic],
       [keywords |-> {S_gemini, S_google}, label |-> P_Google],
       [keywords |-> {S_deepseek}, label |-> P_DeepSeek],
       [keywords |-> {S_qwen, S_alibaba}, label |-> P_Alibaba],
       [keywords |-> {S_grok, S_xai}, label |-> P_xAI] >>

\* a keyword of the i-th family occurs in the lowercased name or organization
FamilyKeywordIn(i, name, organization) ==
    \E k \in FamilyOrder[i].keywords :
        Contains(Lower(name), k) \/ Contains(Lower(organization), k)

\* the place of the first such family in the fixed order, 0 when there is none
SelectedFamily(name, organization) ==
    IF \E i \in DOMAIN FamilyOrder : FamilyKeywordIn(i, name, organization)
    THEN CHOOSE i \in DOMAIN FamilyOrder :
             /\ FamilyKeywordIn(i, name, organization)
             /\ \A j \in 1..(i - 1) : ~FamilyKeywordIn(j, name, organization)
    ELSE 0

\* C22: estimate_pricing selects the first family, in the order openai, anthropic,
\* google, deepseek, alibaba, xai, one of whose keywords occurs in the lowercased
\* name or organization, and returns that family's canonical label; when no
\* family matches it returns exactly (1.0, organization), or (1.0, "Unknown")
\* for an empty organization
C22_FirstFamilyLabel ==
    EstimateReturned =>
        LET i == SelectedFamily(call.a, call.b)
        IN IF i # 0
           THEN ret.provider = FamilyOrder[i].label
           ELSE ret = [price |-> 100,
                       provider |-> IF call.b = <<>> THEN P_Unknown ELSE call.b]

\* a name of the anthropic family with the organization "openai": the first
\* family wins, and the label is "OpenAI", not the organization as written
C22_Witness ==
    /\ EstimateReturned
    /\ FamilyKeywordIn(2, call.a, call.b)
    /\ call.b = S_openai
    /\ ret.provider = P_OpenAI
    /\ ret.provider # call.b

\* the rules of the family selected for a name and an organization
SelectedRules(name, organization) ==
    PRICING_RULES[family_checks[SelectedFamily(name, organization)].family]

\* the k-th pattern of the rules matches the lowercased name
RuleMatches(rules, k, name) == PatternFound(rules.patterns[k].pattern, Lower(name))

\* C23: within the selected family the price returned is the price of the first
\* rule, in the family's rule order, whose pattern matches the lowercased name;
\* when no rule matches it is the family's flat default price
C23_FirstRulePrice ==
    (EstimateReturned /\ SelectedFamily(call.a, call.b) # 0) =>
        LET rules == SelectedRules(call.a, call.b)
        IN \/ \E k \in DOMAIN rules.patterns :
                 /\ RuleMatches(rules, k, call.a)
                 /\ \A j \in 1..(k - 1) : ~RuleMatches(rules, j, call.a)
                 /\ ret.price = rules.patterns[k].price
           \/ /\ \A k \in DOMAIN rules.patterns : ~RuleMatches(rules, k, call.a)
              /\ ret.price = rules.default

\* a name that matches an earlier and a later rule of different prices
\* ("gpt-4o-mini": 2.5 by "4o|4\.1", not 0.5 by "mini|nano")
C23_Witness ==
    /\ EstimateReturned
    /\ SelectedFamily(call.a, call.b) # 0
    /\ LET rules == SelectedRules(call.a, call.b)
       IN \E k, l \in DOMAIN rules.patterns :
              /\ k < l
              /\ RuleMatches(rules, k, call.a)
              /\ RuleMatches(rules, l, call.a)
              /\ rules.patterns[k].price # rules.patterns[l].price
              /\ ret.price = rules.patterns[k].price

(***************************************************************************)
(* Properties of the estimator inside a run                                *)
(***************************************************************************)
\* C24: estimate_pricing never raises for a rank entry that reaches it, its
\* organization missing or null included: a run whose data files hold every
\* key the code reads by subscript does not end in an exception
C24_EstimateNeverRaises ==
    ((\A i \in DOMAIN price_data : PriceEntryOk(price_data[i]))
        /\ (\A n \in DOMAIN rank_data : ~RankLacksField(rank_data[n])))
            => pc # "raised"

(***************************************************************************)
(* Properties of the field validation                                      *)
(***************************************************************************)
\* a rank entry with a name, a score and a number of votes
HasRequiredFields(entry) ==
    /\ {"Model", "Score", "Votes"} \subseteq DOMAIN entry
    /\ Strip(entry["Model"]) # <<>>

\* C29: a rank entry that has every required field is not skipped as a
\* missing-field entry when its votes or its score are 0: once past the score
\* filter it reaches the matching step
C29_ZeroIsValid ==
    \A n \in DOMAIN trace :
        (HasRequiredFields(rank_data[n]) /\ trace[n].outcome # "filtered")
            => Matched(trace[n])

(***************************************************************************)
(* Properties of the price index during the loop                           *)
(***************************************************************************)
\* C28: once the price index is built no step of the run changes it: after any
\* number of calls of find_match (exact, normalized and fuzzy steps) and of the
\* estimator, it is the index _load_price_data built from price_data
C28_IndexUnchanged == pc # "load" => price_lookup = load_price_data(price_data)

\* a finished run of two rank entries, one resolved by the normalized or the
\* fuzzy step and one handed to the estimator, over an index that is not empty
C28_Witness ==
    /\ pc = "done"
    /\ Len(trace) = 2
    /\ \E n \in DOMAIN trace :
           trace[n].strategy \in {"normalized", "fuzzy"} /\ trace[n].info # None
    /\ \E n \in DOMAIN trace : trace[n].estimated
    /\ price_lookup # <<>>
    /\ price_lookup = load_price_data(price_data)

(***************************************************************************)
(* Properties of the suffix, the fallback and the vendor prefix of the     *)
(* display names                                                           *)
(***************************************************************************)
\* the number of resolved records that share the matched catalog name of item i
GroupSize(i) == MatchedCount(synthesized_data, synthesized_data[i].matched_price_model)

\* the first date-like token (8 digits, 6 digits, ISO date or MM-DD) and the
\* first version token (v or V and digits) of a name, <<>> when it has none
DateToken(name) == SearchGroup(name, MatchDateToken)
VersionToken(name) == SearchGroup(name, MatchVersionToken)

\* display ends with " (token)"
HasSuffix(display, token) ==
    LET tail == <<" ", "(">> \o token \o <<")">>
    IN /\ Len(display) >= Len(tail)
       /\ SubSeq(display, Len(display) - Len(tail) + 1, Len(display)) = tail

\* C25: in a collision group of two or more, a record whose rank name holds a
\* date-like token gets that token as the suffix of its display name, a
\* version token in the name notwithstanding; the version token is the suffix
\* only when the rank name holds no date-like token
C25_DateBeforeVersion ==
    pc = "done" =>
        \A i \in DOMAIN records :
            LET name == synthesized_data[i].model
            IN GroupSize(i) >= 2 =>
                   /\ DateToken(name) # <<>> => HasSuffix(records[i].model, DateToken(name))
                   /\ (DateToken(name) = <<>> /\ VersionToken(name) # <<>>) =>
                          HasSuffix(records[i].model, VersionToken(name))

\* a group of two whose first rank name holds a version token and then a date,
\* and whose second holds a version token only
C25_Witness ==
    /\ pc = "done"
    /\ \E i, j \in DOMAIN records :
           /\ i # j
           /\ synthesized_data[i].matched_price_model = synthesized_data[j].matched_price_model
           /\ DateToken(synthesized_data[i].model) # <<>>
           /\ VersionToken(synthesized_data[i].model) # <<>>
           /\ HasSuffix(records[i].model, DateToken(synthesized_data[i].model))
           /\ DateToken(synthesized_data[j].model) = <<>>
           /\ HasSuffix(records[j].model, VersionToken(synthesized_data[j].model))

\* t is the text after the last "/" of s (s itself when s holds no "/")
IsTextAfterLastSlash(t, s) ==
    /\ \A k \in DOMAIN t : t[k] # "/"
    /\ Len(t) <= Len(s)
    /\ SubSeq(s, Len(s) - Len(t) + 1, Len(s)) = t
    /\ (Len(t) < Len(s) => s[Len(s) - Len(t)] = "/")

ChosenName(i) ==
    IF GroupSize(i) >= 2
    THEN Disambiguated(synthesized_data[i], Suffix(synthesized_data[i].model))
    ELSE synthesized_data[i].matched_price_model

\* C27: no display name of the output holds a "/": for every record, whether
\* its name was disambiguated or not, the display name is the text after the last
\* "/" of the name the steps before chose
C27_NoVendorPrefix ==
    pc = "done" =>
        \A i \in DOMAIN records :
            /\ ~Contains(records[i].model, <<"/">>)
            /\ IsTextAfterLastSlash(records[i].model, ChosenName(i))

\* a disambiguated name and a name that was not, both chosen with a vendor prefix
C27_Witness ==
    /\ pc = "done"
    /\ \E i, k \in DOMAIN records :
           /\ GroupSize(i) >= 2
           /\ HasSuffix(ChosenName(i), Suffix(synthesized_data[i].model))
           /\ Contains(ChosenName(i), <<"/">>)
           /\ GroupSize(k) = 1
           /\ Contains(ChosenName(k), <<"/">>)

(***************************************************************************)
(* Properties of fetch_latest_leaderboard_df                               *)
(***************************************************************************)
NoFrame == Fetched(None, NoDate)

\* the file can be downloaded and processed
Good(file) == file \in repo.files /\ file \in readable

\* C30: when an update is needed and the latest file is a pkl whose processing
\* fails, the csv file of the same date is tried once, and its data frame is
\* returned with the latest date if that succeeds; if it fails too, or if the
\* file that failed was a csv, the result is (None, None). A data frame is
\* never returned with a None date, and when no update is needed nothing is
\* downloaded and the result is (None, latest date)
C30_CsvFallbackOnce ==
    fetch_pc = "returned" =>
        /\ fetched.df # None => fetched.date # NoDate
        /\ ~check.needs_update =>
               (downloads = <<>> /\ fetched = Fetched(None, check.latest_date))
        /\ check.needs_update =>
               LET latest == check.latest_file
                   csv == RepoFile("csv", latest.date)
               IN IF Good(latest)
                  THEN downloads = <<latest>> /\ fetched = Fetched(latest, check.latest_date)
                  ELSE IF latest.kind = "pkl"
                  THEN /\ downloads = <<latest, csv>>
                       /\ fetched = IF Good(csv) THEN Fetched(csv, check.latest_date)
                                    ELSE NoFrame
                  ELSE downloads = <<latest>> /\ fetched = NoFrame

\* the latest file is a pkl that fails, and the csv of its date is returned
C30_Witness ==
    /\ fetch_pc = "returned"
    /\ check.needs_update
    /\ check.file_type = "pkl"
    /\ ~Good(check.latest_file)
    /\ Len(downloads) = 2
    /\ fetched.df = RepoFile("csv", check.latest_file.date)
    /\ fetched.date = check.latest_file.date

====
